---- MODULE Spec2Model ----
(***************************************************************************)
(* Persona: tenant-scoped OAuth identities, refresh-token sessions and     *)
(* access tokens.  The identity and session tables are sequences of rows   *)
(* in insertion (rowid) order; the repositories, the token service, the    *)
(* auth service and the token/logout routes are operators and actions      *)
(* over them.                                                              *)
(***************************************************************************)
EXTENDS Integers, Sequences, FiniteSets, TLC

VARIABLES
    identity,   \* the identity table
    session,    \* the session table
    now,        \* Date.now(), in milliseconds
    ids,        \* how many ids generateId has handed out, per table
    wallet,     \* token grants a client still holds
    ret,        \* what the last completed service call returned
    calls,      \* the in-flight handleOAuthLogin calls
    tenantConfig, \* config.tenant of the running server: [mode, tenants]
    browser     \* the cookies one browser holds for the server

web == <<tenantConfig, browser>>
vars == <<identity, session, now, ids, wallet, ret, calls, tenantConfig, browser>>

-----------------------------------------------------------------------------
(* Bounds of the model *)

MaxSessions == 2      \* sessions created in one behaviour
MaxIdentities == 2    \* identities created in one behaviour
MaxNow == 2000        \* the clock stops advancing here
MaxWallet == 1        \* grants a client keeps

TickDeltas == {500}
Tenants == {"t1", "t2"}
Callers == {1, 2}

-----------------------------------------------------------------------------
(* Values *)

\* A nullable column or an optional property: <<>> is NULL / undefined.
NULL == <<>>
Some(v) == <<v>>

\* Date.prototype.toISOString and new Date(iso): a fixed-width text whose
\* lexicographic order is the order of the instants.
toISOString(ms) == <<"iso", ms>>
parseDate(iso) == iso[2]
IsoLess(a, b) == a[2] < b[2]

\* generateId: a fresh random id, never handed out before.
generateId(n) == n.identity + n.session + 1

\* generateRefreshToken: 32 fresh random bytes; hashToken: SHA-256 of them.
generateRefreshToken(n) == 100 + n.session
hashToken(token) == <<"sha256", token>>

MsPerSecond == 1000

\* The service configuration: PERSONA_JWT_SECRET and the two expiries.
config ==
    [jwtSecret |-> "secret",
     accessTokenExpiry |-> <<"2", "s">>,
     refreshTokenExpiry |-> <<"1", "s">>]

-----------------------------------------------------------------------------
(* parseExpiry: /^(\d+)([smhdw])$/ over a text given as its characters *)

Digits == {"0", "1", "2", "3", "4", "5", "6", "7", "8", "9"}
Units == {"s", "m", "h", "d", "w"}

DigitValue(c) ==
    CASE c = "0" -> 0 [] c = "1" -> 1 [] c = "2" -> 2 [] c = "3" -> 3
      [] c = "4" -> 4 [] c = "5" -> 5 [] c = "6" -> 6 [] c = "7" -> 7
      [] c = "8" -> 8 [] c = "9" -> 9

RECURSIVE parseInt(_)
parseInt(ds) ==
    IF ds = <<>> THEN 0
    ELSE 10 * parseInt(SubSeq(ds, 1, Len(ds) - 1)) + DigitValue(ds[Len(ds)])

DefaultExpiry == 900

UnitSeconds(u) ==
    CASE u = "s" -> 1
      [] u = "m" -> 60
      [] u = "h" -> 3600
      [] u = "d" -> 86400
      [] u = "w" -> 604800

\* A parser that takes a text of digits alone as a number of seconds.
parseExpiryBareSeconds(expiry) ==
    IF Len(expiry) >= 1 /\ \A i \in 1..Len(expiry) : expiry[i] \in Digits
    THEN parseInt(expiry)
    ELSE IF /\ Len(expiry) >= 2
            /\ \A i \in 1..(Len(expiry) - 1) : expiry[i] \in Digits
            /\ expiry[Len(expiry)] \in Units
    THEN parseInt(SubSeq(expiry, 1, Len(expiry) - 1)) * UnitSeconds(expiry[Len(expiry)])
    ELSE DefaultExpiry

parseExpiry(expiry) ==
    IF /\ Len(expiry) >= 2
       /\ \A i \in 1..(Len(expiry) - 1) : expiry[i] \in Digits
       /\ expiry[Len(expiry)] \in Units
    THEN parseInt(SubSeq(expiry, 1, Len(expiry) - 1)) * UnitSeconds(expiry[Len(expiry)])
    ELSE DefaultExpiry

accessTokenExpirySeconds == parseExpiry(config.accessTokenExpiry)
refreshTokenExpirySeconds == parseExpiry(config.refreshTokenExpiry)

-----------------------------------------------------------------------------
(* Role lists: stored as CSV text (characters), read back by split/filter *)

RECURSIVE joinCsv(_)
joinCsv(roles) ==
    IF roles = <<>> THEN <<>>
    ELSE IF Len(roles) = 1 THEN roles[1]
    ELSE roles[1] \o <<",">> \o joinCsv(Tail(roles))

\* String.prototype.split(","): the pieces between commas, empty ones kept.
RECURSIVE splitCsv(_, _)
splitCsv(text, piece) ==
    IF text = <<>> THEN <<piece>>
    ELSE IF Head(text) = "," THEN <<piece>> \o splitCsv(Tail(text), <<>>)
    ELSE splitCsv(Tail(text), Append(piece, Head(text)))

-----------------------------------------------------------------------------
(* Result<T> *)

success(data) == [success |-> TRUE, data |-> data]
failure(code, message) ==
    [success |-> FALSE, error |-> [code |-> code, message |-> message]]

-----------------------------------------------------------------------------
(* Identity repository.  The created_at / updated_at audit columns, which  *)
(* no operation reads back into a decision or a token, are left out.       *)

Where(tbl, P(_)) == SelectSeq(tbl, P)
Count(tbl, P(_)) == Len(SelectSeq(tbl, P))

mapIdentityToDomain(row) ==
    [id |-> row.id,
     tenantId |-> row.tenant_id,
     provider |-> row.provider,
     providerUserId |-> row.provider_user_id,
     email |-> row.email,
     roles |-> IF row.roles # NULL /\ row.roles[1] # <<>>
               THEN SelectSeq(splitCsv(row.roles[1], <<>>), LAMBDA r : r # <<>>)
               ELSE <<>>,
     name |-> row.name,
     profileImageUrl |-> row.profile_image_url,
     userId |-> row.user_id,
     metadata |-> IF row.metadata # NULL THEN Some(row.metadata[1][2]) ELSE NULL]

\* rows[0] !== undefined ? mapIdentityToDomain(rows[0]) : null
FirstIdentity(rows) ==
    IF rows = <<>> THEN NULL ELSE Some(mapIdentityToDomain(rows[1]))

identityFindById(tbl, id) ==
    FirstIdentity(Where(tbl, LAMBDA i : i.id = id))

\* A lookup that leaves the tenant out of its WHERE clause.
findByProviderAnyTenant(tbl, tenantId, provider, providerUserId) ==
    FirstIdentity(Where(tbl, LAMBDA i :
        /\ i.provider = provider
        /\ i.provider_user_id = providerUserId))

findByProvider(tbl, tenantId, provider, providerUserId) ==
    FirstIdentity(Where(tbl, LAMBDA i :
        /\ i.tenant_id = tenantId
        /\ i.provider = provider
        /\ i.provider_user_id = providerUserId))

findByEmail(tbl, tenantId, email) ==
    FirstIdentity(Where(tbl, LAMBDA i :
        i.tenant_id = tenantId /\ i.email = email))

findByUserId(tbl, tenantId, userId) ==
    FirstIdentity(Where(tbl, LAMBDA i :
        i.tenant_id = tenantId /\ i.user_id = Some(userId)))

\* A schema without the unique index.
NoUniqueIndex(tbl, row) == FALSE

\* table.unique(["tenant_id", "provider", "provider_user_id"])
IdentityUniqueViolation(tbl, row) ==
    \E k \in 1..Len(tbl) :
        /\ tbl[k].tenant_id = row.tenant_id
        /\ tbl[k].provider = row.provider
        /\ tbl[k].provider_user_id = row.provider_user_id

\* create: the insert throws on a constraint violation, otherwise the new
\* row is read back by its id.
identityCreate(tbl, n, data) ==
    LET row == [id |-> generateId(n),
                tenant_id |-> data.tenantId,
                provider |-> data.provider,
                provider_user_id |-> data.providerUserId,
                email |-> data.email,
                name |-> data.name,
                profile_image_url |-> data.profileImageUrl,
                user_id |-> NULL,
                roles |-> NULL,
                metadata |-> IF data.metadata # NULL
                             THEN Some(<<"json", data.metadata[1]>>)
                             ELSE NULL]
    IN  IF IdentityUniqueViolation(tbl, row)
        THEN [threw |-> TRUE, identity |-> tbl, result |-> NULL]
        ELSE [threw |-> FALSE,
              identity |-> Append(tbl, row),
              result |-> identityFindById(Append(tbl, row), row.id)]

\* The UPDATE without its WHERE clause.
updateUserIdAndRolesEveryRow(tbl, id, userId, roles) ==
    LET updated == [k \in 1..Len(tbl) |->
                       [tbl[k] EXCEPT !.user_id = Some(userId),
                                      !.roles = Some(joinCsv(roles))]]
    IN  IF Len(tbl) = 0
        THEN [identity |-> tbl, result |-> NULL]
        ELSE [identity |-> updated, result |-> identityFindById(updated, id)]

updateUserIdAndRoles(tbl, id, userId, roles) ==
    LET changes == Count(tbl, LAMBDA i : i.id = id)
        updated == [k \in 1..Len(tbl) |->
                       IF tbl[k].id = id
                       THEN [tbl[k] EXCEPT !.user_id = Some(userId),
                                           !.roles = Some(joinCsv(roles))]
                       ELSE tbl[k]]
    IN  IF changes = 0
        THEN [identity |-> tbl, result |-> NULL]
        ELSE [identity |-> updated, result |-> identityFindById(updated, id)]

\* The UPDATE without its tenant_id condition.
updateRolesAnyTenant(tbl, tenantId, userId, roles) ==
    LET hit(i) == i.user_id = Some(userId)
    IN  [identity |-> [k \in 1..Len(tbl) |->
                          IF hit(tbl[k])
                          THEN [tbl[k] EXCEPT !.roles = Some(joinCsv(roles))]
                          ELSE tbl[k]],
         changes |-> Count(tbl, hit)]

updateRolesByUserId(tbl, tenantId, userId, roles) ==
    LET hit(i) == i.tenant_id = tenantId /\ i.user_id = Some(userId)
    IN  [identity |-> [k \in 1..Len(tbl) |->
                          IF hit(tbl[k])
                          THEN [tbl[k] EXCEPT !.roles = Some(joinCsv(roles))]
                          ELSE tbl[k]],
         changes |-> Count(tbl, hit)]

-----------------------------------------------------------------------------
(* Session repository *)

mapSessionToDomain(row) ==
    [id |-> row.id,
     identityId |-> row.identity_id,
     tenantId |-> row.tenant_id,
     tokenHash |-> row.token_hash,
     expiresAt |-> parseDate(row.expires_at),
     revoked |-> row.revoked = 1,
     createdAt |-> parseDate(row.created_at),
     ipAddress |-> row.ip_address,
     userAgent |-> row.user_agent]

FirstSession(rows) ==
    IF rows = <<>> THEN NULL ELSE Some(mapSessionToDomain(rows[1]))

sessionFindById(tbl, id) ==
    FirstSession(Where(tbl, LAMBDA s : s.id = id))

findByTokenHash(tbl, tokenHash) ==
    FirstSession(Where(tbl, LAMBDA s : s.token_hash = tokenHash))

findByIdentityId(tbl, identityId) ==
    LET rows == Where(tbl, LAMBDA s : s.identity_id = identityId /\ s.revoked = 0)
    IN  [k \in 1..Len(rows) |-> mapSessionToDomain(rows[k])]

sessionCreate(tbl, n, data, t) ==
    LET row == [id |-> generateId(n),
                identity_id |-> data.identityId,
                tenant_id |-> data.tenantId,
                token_hash |-> data.tokenHash,
                expires_at |-> toISOString(data.expiresAt),
                revoked |-> 0,
                ip_address |-> data.ipAddress,
                user_agent |-> data.userAgent,
                created_at |-> toISOString(t)]
    IN  [session |-> Append(tbl, row),
         result |-> sessionFindById(Append(tbl, row), row.id)[1]]

\* UPDATE session SET revoked = 1 WHERE hit: the new table and the number
\* of rows the statement matched.
SetRevoked(tbl, hit(_)) ==
    [session |-> [k \in 1..Len(tbl) |->
                     IF hit(tbl[k]) THEN [tbl[k] EXCEPT !.revoked = 1] ELSE tbl[k]],
     changes |-> Count(tbl, hit)]

\* An UPDATE that flips the flag instead of setting it.
revokeFlips(tbl, id) ==
    [session |-> [k \in 1..Len(tbl) |->
                     IF tbl[k].id = id
                     THEN [tbl[k] EXCEPT !.revoked = 1 - @] ELSE tbl[k]],
     result |-> Count(tbl, LAMBDA s : s.id = id) > 0]

revoke(tbl, id) ==
    LET u == SetRevoked(tbl, LAMBDA s : s.id = id)
    IN  [session |-> u.session, result |-> u.changes > 0]

revokeAllByIdentityId(tbl, identityId) ==
    SetRevoked(tbl, LAMBDA s : s.identity_id = identityId)

\* One UPDATE per identity of (tenantId, userId), in row order.
RECURSIVE RevokeEach(_, _, _)
RevokeEach(tbl, identities, totalRevoked) ==
    IF identities = <<>> THEN [session |-> tbl, changes |-> totalRevoked]
    ELSE LET u == SetRevoked(tbl, LAMBDA s :
                      s.identity_id = identities[1].id /\ s.revoked = 0)
         IN  RevokeEach(u.session, Tail(identities), totalRevoked + u.changes)

\* The identities selected without the tenant_id condition.
revokeAllByUserIdAnyTenant(idTbl, tbl, tenantId, userId) ==
    LET identities == Where(idTbl, LAMBDA i : i.user_id = Some(userId))
    IN  IF Len(identities) = 0
        THEN [session |-> tbl, changes |-> 0]
        ELSE RevokeEach(tbl, identities, 0)

revokeAllByUserId(idTbl, tbl, tenantId, userId) ==
    LET identities == Where(idTbl, LAMBDA i :
                          i.tenant_id = tenantId /\ i.user_id = Some(userId))
    IN  IF Len(identities) = 0
        THEN [session |-> tbl, changes |-> 0]
        ELSE RevokeEach(tbl, identities, 0)

\* A DELETE that stops after the first row it matches.
deleteExpiredOneRow(tbl, t) ==
    LET hits == {k \in 1..Len(tbl) : IsoLess(tbl[k].expires_at, toISOString(t))}
        first == CHOOSE k \in hits : \A j \in hits : k <= j
    IN  IF hits = {}
        THEN [session |-> tbl, changes |-> 0]
        ELSE [session |-> SubSeq(tbl, 1, first - 1) \o
                          SubSeq(tbl, first + 1, Len(tbl)),
              changes |-> 1]

\* A DELETE whose condition is expires_at <= now.
deleteExpiredInclusive(tbl, t) ==
    [session |-> Where(tbl, LAMBDA s : IsoLess(toISOString(t), s.expires_at)),
     changes |-> Count(tbl, LAMBDA s : ~IsoLess(toISOString(t), s.expires_at))]

deleteExpired(tbl, t) ==
    [session |-> Where(tbl, LAMBDA s : ~IsoLess(s.expires_at, toISOString(t))),
     changes |-> Count(tbl, LAMBDA s : IsoLess(s.expires_at, toISOString(t)))]

-----------------------------------------------------------------------------
(* jsonwebtoken, as the token service uses it: sign stamps iat and exp in  *)
(* whole seconds; verify checks the form and the signature first, then     *)
(* rejects a token whose exp is not after the current second.              *)

jwtSign(payload, secret, expiresIn, t) ==
    [form |-> "jwt",
     payload |-> payload @@ [iat |-> t \div MsPerSecond,
                             exp |-> (t \div MsPerSecond) + expiresIn],
     key |-> secret]

jwtVerify(token, secret, t) ==
    IF token.form # "jwt" \/ token.key # secret
    THEN [error |-> "JsonWebTokenError"]
    ELSE IF (t \div MsPerSecond) >= token.payload.exp
    THEN [error |-> "TokenExpiredError"]
    ELSE [error |-> "none", decoded |-> token.payload]

-----------------------------------------------------------------------------
(* Token service *)

\* What a caller holds after being handed an access token: the token, the
\* identity it was minted for and the id of the session it is bound to.
Grant(accessToken, ident, sessionId) ==
    [accessToken |-> accessToken, identity |-> ident, sessionId |-> sessionId]

\* A payload that binds the token to the identity's id instead of the
\* session's.
generateAccessTokenUnbound(ident, sessionId, t) ==
    jwtSign([sub |-> ident.id,
             tenant |-> ident.tenantId,
             userId |-> ident.userId,
             email |-> ident.email,
             name |-> ident.name,
             profileImageUrl |-> ident.profileImageUrl,
             roles |-> ident.roles,
             sessionId |-> ident.id],
            config.jwtSecret, accessTokenExpirySeconds, t)

generateAccessToken(ident, sessionId, t) ==
    jwtSign([sub |-> ident.id,
             tenant |-> ident.tenantId,
             userId |-> ident.userId,
             email |-> ident.email,
             name |-> ident.name,
             profileImageUrl |-> ident.profileImageUrl,
             roles |-> ident.roles,
             sessionId |-> sessionId],
            config.jwtSecret, accessTokenExpirySeconds, t)

\* A token issue that files every session under the first configured tenant.
generateTokensFirstTenant(db, ident, ipAddress, userAgent, t) ==
    LET refreshToken == generateRefreshToken(db.ids)
        created == sessionCreate(db.session, db.ids,
                       [identityId |-> ident.id,
                        tenantId |-> "t1",
                        tokenHash |-> hashToken(refreshToken),
                        expiresAt |-> t + refreshTokenExpirySeconds * MsPerSecond,
                        ipAddress |-> ipAddress,
                        userAgent |-> userAgent], t)
    IN  [db |-> [db EXCEPT !.session = created.session, !.ids.session = @ + 1],
         tokens |-> [accessToken |-> generateAccessToken(ident, created.result.id, t),
                     refreshToken |-> refreshToken,
                     expiresIn |-> accessTokenExpirySeconds],
         session |-> created.result]

\* db is [identity, session, ids]; the result carries the db afterwards.
generateTokens(db, ident, ipAddress, userAgent, t) ==
    LET refreshToken == generateRefreshToken(db.ids)
        created == sessionCreate(db.session, db.ids,
                       [identityId |-> ident.id,
                        tenantId |-> ident.tenantId,
                        tokenHash |-> hashToken(refreshToken),
                        expiresAt |-> t + refreshTokenExpirySeconds * MsPerSecond,
                        ipAddress |-> ipAddress,
                        userAgent |-> userAgent], t)
    IN  [db |-> [db EXCEPT !.session = created.session, !.ids.session = @ + 1],
         tokens |-> [accessToken |-> generateAccessToken(ident, created.result.id, t),
                     refreshToken |-> refreshToken,
                     expiresIn |-> accessTokenExpirySeconds],
         session |-> created.result]

\* A verification that also looks the token's session up and turns the
\* token down when the session is gone or revoked.
verifyAccessTokenLive(token, t) ==
    LET v == jwtVerify(token, config.jwtSecret, t)
    IN  CASE v.error = "none" ->
                 IF \E k \in 1..Len(session) :
                        session[k].id = v.decoded.sessionId /\ session[k].revoked = 0
                 THEN success(v.decoded)
                 ELSE failure("INVALID_TOKEN", "Invalid token")
          [] v.error = "TokenExpiredError" -> failure("INVALID_TOKEN", "Token expired")
          [] v.error = "JsonWebTokenError" -> failure("INVALID_TOKEN", "Invalid token")
          [] OTHER -> failure("INTERNAL_ERROR", "Token verification failed")

verifyAccessToken(token, t) ==
    LET v == jwtVerify(token, config.jwtSecret, t)
    IN  CASE v.error = "none" -> success(v.decoded)
          [] v.error = "TokenExpiredError" -> failure("INVALID_TOKEN", "Token expired")
          [] v.error = "JsonWebTokenError" -> failure("INVALID_TOKEN", "Invalid token")
          [] OTHER -> failure("INTERNAL_ERROR", "Token verification failed")

\* A validation without the revoked check.
validateIgnoresRevoked(tbl, token, t) ==
    LET found == findByTokenHash(tbl, hashToken(token))
    IN  IF found = NULL
        THEN failure("INVALID_TOKEN", "Invalid refresh token")
        ELSE IF found[1].expiresAt < t
        THEN failure("INVALID_TOKEN", "Refresh token expired")
        ELSE success(found[1])

\* A validation that looks at the expiry before the revoked flag.
validateExpiryFirst(tbl, token, t) ==
    LET found == findByTokenHash(tbl, hashToken(token))
    IN  IF found = NULL
        THEN failure("INVALID_TOKEN", "Invalid refresh token")
        ELSE IF found[1].expiresAt < t
        THEN failure("INVALID_TOKEN", "Refresh token expired")
        ELSE IF found[1].revoked
        THEN failure("INVALID_TOKEN", "Session has been revoked")
        ELSE success(found[1])

validateRefreshToken(tbl, token, t) ==
    LET found == findByTokenHash(tbl, hashToken(token))
    IN  IF found = NULL
        THEN failure("INVALID_TOKEN", "Invalid refresh token")
        ELSE IF found[1].revoked
        THEN failure("INVALID_TOKEN", "Session has been revoked")
        ELSE IF found[1].expiresAt < t
        THEN failure("INVALID_TOKEN", "Refresh token expired")
        ELSE success(found[1])

\* A revocation that matches only sessions not yet revoked.
revokeSessionOnce(tbl, sessionId) ==
    LET u == SetRevoked(tbl, LAMBDA s : s.id = sessionId /\ s.revoked = 0)
    IN  [session |-> u.session,
         result |-> IF u.changes = 0
                    THEN failure("NOT_FOUND", "Session not found")
                    ELSE success(NULL)]

revokeSession(tbl, sessionId) ==
    LET r == revoke(tbl, sessionId)
    IN  [session |-> r.session,
         result |-> IF ~r.result
                    THEN failure("NOT_FOUND", "Session not found")
                    ELSE success(NULL)]

revokeAllIdentitySessions(tbl, identityId) ==
    LET r == revokeAllByIdentityId(tbl, identityId)
    IN  [session |-> r.session, result |-> success(r.changes)]

revokeAllUserSessions(idTbl, tbl, tenantId, userId) ==
    LET r == revokeAllByUserId(idTbl, tbl, tenantId, userId)
    IN  [session |-> r.session, result |-> success(r.changes)]

-----------------------------------------------------------------------------
(* Auth service.  handleOAuthLogin gives up the thread at each await: after *)
(* the lookup, after the insert, and after the session insert.  A call is   *)
(* [pc, args, identity, isNew, result]; each step below is the code between *)
(* two awaits.                                                              *)

NewCall(tenantId, provider, userInfo, ipAddress, userAgent) ==
    [pc |-> "find", tenantId |-> tenantId, provider |-> provider,
     userInfo |-> userInfo, ipAddress |-> ipAddress, userAgent |-> userAgent,
     identity |-> NULL, isNew |-> FALSE, result |-> NULL]

IdleCall == [pc |-> "idle"]

\* The lookup followed by a refresh of the stored profile from the claims.
StepFindRefreshesProfile(db, call) ==
    LET found == findByProvider(db.identity, call.tenantId, call.provider,
                                call.userInfo.id)
        refreshed == [k \in 1..Len(db.identity) |->
                         IF found # NULL /\ db.identity[k].id = found[1].id
                         THEN [db.identity[k] EXCEPT
                                  !.name = call.userInfo.name,
                                  !.profile_image_url = call.userInfo.picture]
                         ELSE db.identity[k]]
    IN  [db |-> [db EXCEPT !.identity = refreshed],
         call |-> [call EXCEPT
                      !.identity = IF found = NULL THEN NULL
                                   ELSE identityFindById(refreshed, found[1].id),
                      !.pc = IF found = NULL THEN "create" ELSE "tokens"]]

StepFind(db, call) ==
    LET found == findByProvider(db.identity, call.tenantId, call.provider,
                                call.userInfo.id)
    IN  [db |-> db,
         call |-> [call EXCEPT !.identity = found,
                               !.pc = IF found = NULL THEN "create" ELSE "tokens"]]

\* The create step with a fallback email that leaves the provider out.
StepCreateShortFallback(db, call) ==
    LET c == identityCreate(db.identity, db.ids,
                 [tenantId |-> call.tenantId,
                  provider |-> call.provider,
                  providerUserId |-> call.userInfo.id,
                  email |-> IF call.userInfo.email # NULL
                            THEN call.userInfo.email[1]
                            ELSE call.userInfo.id \o "@local",
                  name |-> call.userInfo.name,
                  profileImageUrl |-> call.userInfo.picture,
                  metadata |-> Some(call.userInfo.raw)])
    IN  IF c.threw
        THEN [db |-> db,
              call |-> [call EXCEPT
                  !.pc = "done",
                  !.result = Some(failure("INTERNAL_ERROR", "Authentication failed"))]]
        ELSE [db |-> [db EXCEPT !.identity = c.identity, !.ids.identity = @ + 1],
              call |-> [call EXCEPT !.identity = c.result, !.isNew = TRUE,
                                    !.pc = "tokens"]]

StepCreate(db, call) ==
    LET c == identityCreate(db.identity, db.ids,
                 [tenantId |-> call.tenantId,
                  provider |-> call.provider,
                  providerUserId |-> call.userInfo.id,
                  email |-> IF call.userInfo.email # NULL
                            THEN call.userInfo.email[1]
                            ELSE call.userInfo.id \o "@" \o call.provider \o ".local",
                  name |-> call.userInfo.name,
                  profileImageUrl |-> call.userInfo.picture,
                  metadata |-> Some(call.userInfo.raw)])
    IN  IF c.threw
        THEN [db |-> db,
              call |-> [call EXCEPT
                  !.pc = "done",
                  !.result = Some(failure("INTERNAL_ERROR", "Authentication failed"))]]
        ELSE [db |-> [db EXCEPT !.identity = c.identity, !.ids.identity = @ + 1],
              call |-> [call EXCEPT !.identity = c.result, !.isNew = TRUE,
                                    !.pc = "tokens"]]

StepTokens(db, call, t) ==
    LET g == generateTokens(db, call.identity[1], call.ipAddress, call.userAgent, t)
    IN  [db |-> g.db,
         call |-> [call EXCEPT
             !.pc = "done",
             !.result = Some(success([identity |-> call.identity[1],
                                      tokens |-> g.tokens,
                                      isNew |-> call.isNew]))],
         grant |-> Some(Grant(g.tokens.accessToken, call.identity[1], g.session.id))]

\* The whole call with no other request running between its awaits.
handleOAuthLogin(db, call, t) ==
    LET a == StepFind(db, call)
        b == IF a.call.pc = "create" THEN StepCreate(a.db, a.call) ELSE a
    IN  IF b.call.pc = "tokens" THEN StepTokens(b.db, b.call, t)
        ELSE [db |-> b.db, call |-> b.call, grant |-> NULL]

linkIdentityToUser(db, identityId, userId, roles, t) ==
    LET u == updateUserIdAndRoles(db.identity, identityId, userId, roles)
    IN  IF u.result = NULL
        THEN [db |-> [db EXCEPT !.identity = u.identity],
              result |-> failure("NOT_FOUND", "Identity not found"),
              grant |-> NULL]
        ELSE LET g == generateTokens([db EXCEPT !.identity = u.identity],
                                     u.result[1], NULL, NULL, t)
             IN  [db |-> g.db,
                  result |-> success([identity |-> u.result[1], tokens |-> g.tokens]),
                  grant |-> Some(Grant(g.tokens.accessToken, u.result[1],
                                       g.session.id))]

updateUserRoles(db, tenantId, userId, roles) ==
    LET u == updateRolesByUserId(db.identity, tenantId, userId, roles)
    IN  [db |-> [db EXCEPT !.identity = u.identity], result |-> success(u.changes)]

revokeUserSessions(db, tenantId, userId) ==
    LET r == revokeAllUserSessions(db.identity, db.session, tenantId, userId)
    IN  [db |-> [db EXCEPT !.session = r.session], result |-> r.result]

-----------------------------------------------------------------------------
(* Routes: POST /token/refresh and POST /logout.  A request carries the    *)
(* refresh_token cookie and the refreshToken body field, each a text or    *)
(* absent; a response is [status, body, cookies] where cookies maps the    *)
(* names the response sets or clears.                                      *)

RefreshExpiresIn == 900

PickRefreshToken(cookieToken, bodyToken) ==
    IF cookieToken # NULL THEN cookieToken
    ELSE IF bodyToken # NULL THEN bodyToken
    ELSE NULL

Cleared == [cleared |-> TRUE]
SetTo(v) == [cleared |-> FALSE, value |-> v]

\* res.status(401).json({ error }), after clearing the auth cookies or not.
RefreshDenied(db, message, clearCookies) ==
    [db |-> db,
     response |-> [status |-> 401,
                   body |-> [error |-> message],
                   cookies |-> IF clearCookies
                               THEN [c \in {"access_token", "refresh_token"} |->
                                        Cleared]
                               ELSE <<>>],
     grant |-> NULL]

\* A refresh that mints the token from the identity as it was created, with
\* no userId and no roles.
RefreshGrantedAsCreated(db, ident, sessionId, t) ==
    LET accessToken == generateAccessToken(
                           [ident EXCEPT !.userId = NULL, !.roles = <<>>],
                           sessionId, t)
    IN  [db |-> db,
         response |-> [status |-> 200,
                       body |-> [accessToken |-> accessToken,
                                 expiresIn |-> RefreshExpiresIn],
                       cookies |-> [c \in {"access_token"} |-> SetTo(accessToken)]],
         grant |-> Some(Grant(accessToken, ident, sessionId))]

\* The new access token, set as a cookie and returned in the body.
RefreshGranted(db, ident, sessionId, t) ==
    LET accessToken == generateAccessToken(ident, sessionId, t)
    IN  [db |-> db,
         response |-> [status |-> 200,
                       body |-> [accessToken |-> accessToken,
                                 expiresIn |-> RefreshExpiresIn],
                       cookies |-> [c \in {"access_token"} |-> SetTo(accessToken)]],
         grant |-> Some(Grant(accessToken, ident, sessionId))]

\* A refresh that retires the session it was given, as a rotating scheme
\* would.
postTokenRefreshRotates(db, cookieToken, bodyToken, t) ==
    LET refreshToken == PickRefreshToken(cookieToken, bodyToken)
    IN  IF refreshToken = NULL
        THEN RefreshDenied(db, "No refresh token provided", FALSE)
        ELSE LET sessionResult == validateRefreshToken(db.session, refreshToken[1], t)
             IN  IF ~sessionResult.success
                 THEN RefreshDenied(db, sessionResult.error.message, TRUE)
                 ELSE LET found == identityFindById(db.identity,
                                                    sessionResult.data.identityId)
                      IN  IF found = NULL
                          THEN RefreshDenied(db, "Identity not found", FALSE)
                          ELSE RefreshGranted(
                                   [db EXCEPT !.session =
                                       revoke(@, sessionResult.data.id).session],
                                   found[1], sessionResult.data.id, t)

postTokenRefresh(db, cookieToken, bodyToken, t) ==
    LET refreshToken == PickRefreshToken(cookieToken, bodyToken)
    IN  IF refreshToken = NULL
        THEN RefreshDenied(db, "No refresh token provided", FALSE)
        ELSE LET sessionResult == validateRefreshToken(db.session, refreshToken[1], t)
             IN  IF ~sessionResult.success
                 THEN RefreshDenied(db, sessionResult.error.message, TRUE)
                 ELSE LET found == identityFindById(db.identity,
                                                    sessionResult.data.identityId)
                      IN  IF found = NULL
                          THEN RefreshDenied(db, "Identity not found", FALSE)
                          ELSE RefreshGranted(db, found[1], sessionResult.data.id, t)

\* A logout that looks at the body's token before the cookie's.
postLogoutBodyFirst(db, cookieToken, bodyToken, t) ==
    LET refreshToken == PickRefreshToken(bodyToken, cookieToken)
        sessionResult == validateRefreshToken(db.session, refreshToken[1], t)
        revoked == IF refreshToken # NULL /\ sessionResult.success
                   THEN revoke(db.session, sessionResult.data.id).session
                   ELSE db.session
    IN  [db |-> [db EXCEPT !.session = revoked],
         response |-> [status |-> 200, body |-> [success |-> TRUE],
                       cookies |-> [c \in {"access_token", "refresh_token"} |->
                                       Cleared]]]

\* A logout that revokes every session of the token's identity.
postLogoutEverywhere(db, cookieToken, bodyToken, t) ==
    LET refreshToken == PickRefreshToken(cookieToken, bodyToken)
        sessionResult == validateRefreshToken(db.session, refreshToken[1], t)
        revoked == IF refreshToken # NULL /\ sessionResult.success
                   THEN revokeAllByIdentityId(db.session,
                                              sessionResult.data.identityId).session
                   ELSE db.session
    IN  [db |-> [db EXCEPT !.session = revoked],
         response |-> [status |-> 200, body |-> [success |-> TRUE],
                       cookies |-> [c \in {"access_token", "refresh_token"} |->
                                       Cleared]]]

postLogout(db, cookieToken, bodyToken, t) ==
    LET refreshToken == PickRefreshToken(cookieToken, bodyToken)
        sessionResult == validateRefreshToken(db.session, refreshToken[1], t)
        revoked == IF refreshToken # NULL /\ sessionResult.success
                   THEN revokeSession(db.session, sessionResult.data.id).session
                   ELSE db.session
    IN  [db |-> [db EXCEPT !.session = revoked],
         response |-> [status |-> 200, body |-> [success |-> TRUE],
                       cookies |-> [c \in {"access_token", "refresh_token"} |->
                                       Cleared]]]

-----------------------------------------------------------------------------
(* Middleware.  A middleware either answers the request itself (next is    *)
(* FALSE and response is what it sent) or calls next().                    *)

\* config.tenant of a single-tenant and of a multi-tenant deployment.
SingleTenant == [mode |-> "single", tenants |-> <<"t1">>]
MultiTenant == [mode |-> "multi", tenants |-> <<"t1", "t2">>]

internalSecret == "internal-secret"

Json(status, body) == [kind |-> "json", status |-> status, body |-> body]

\* The multi-tenant branch without its test for the empty string.
createTenantMiddlewareNoEmptyTest(cfg, tenantParam) ==
    IF cfg.mode = "single"
    THEN IF tenantParam # NULL
         THEN [next |-> FALSE,
               response |-> Json(400,
                   [error |-> "tenant parameter not allowed in single-tenant mode"])]
         ELSE [next |-> TRUE, tenant |-> cfg.tenants[1]]
    ELSE IF tenantParam = NULL
         THEN [next |-> FALSE,
               response |-> Json(400, [error |-> "tenant parameter required"])]
         ELSE IF \A k \in 1..Len(cfg.tenants) : cfg.tenants[k] # tenantParam[1]
         THEN [next |-> FALSE,
               response |-> Json(400, [error |-> "invalid tenant"])]
         ELSE [next |-> TRUE, tenant |-> tenantParam[1]]

\* tenantParam is req.query.tenant: NULL when the query has none.
createTenantMiddleware(cfg, tenantParam) ==
    IF cfg.mode = "single"
    THEN IF tenantParam # NULL
         THEN [next |-> FALSE,
               response |-> Json(400,
                   [error |-> "tenant parameter not allowed in single-tenant mode"])]
         ELSE [next |-> TRUE, tenant |-> cfg.tenants[1]]
    ELSE IF tenantParam = NULL \/ tenantParam[1] = ""
         THEN [next |-> FALSE,
               response |-> Json(400, [error |-> "tenant parameter required"])]
         ELSE IF \A k \in 1..Len(cfg.tenants) : cfg.tenants[k] # tenantParam[1]
         THEN [next |-> FALSE,
               response |-> Json(400, [error |-> "invalid tenant"])]
         ELSE [next |-> TRUE, tenant |-> tenantParam[1]]

\* The header only has to be present.
createInternalAuthMiddlewareAnySecret(secret, providedSecret) ==
    IF providedSecret = NULL
    THEN [next |-> FALSE, response |-> Json(401, [error |-> "Unauthorized"])]
    ELSE [next |-> TRUE]

\* providedSecret is the x-internal-secret header: NULL when absent.
createInternalAuthMiddleware(secret, providedSecret) ==
    IF providedSecret # Some(secret)
    THEN [next |-> FALSE, response |-> Json(401, [error |-> "Unauthorized"])]
    ELSE [next |-> TRUE]

-----------------------------------------------------------------------------
(* Internal routes.  A handler's result is the db it leaves and the        *)
(* response it sends.                                                      *)

\* LinkRequestSchema: userId of 3 to 20 characters, at least one role.
LinkRequestSchema(body) ==
    /\ Len(body.userId) >= 3
    /\ Len(body.userId) <= 20
    /\ Len(body.roles) >= 1

\* UpdateRolesSchema: at least one role.
UpdateRolesSchema(body) == Len(body.roles) >= 1

\* POST /internal/identity/:identityId/link: what the handler sends for the
\* service's answer r.
linkResponse(r) ==
    IF ~r.result.success
    THEN [db |-> r.db,
          response |-> Json(IF r.result.error.code = "NOT_FOUND"
                            THEN 404 ELSE 500,
                            [error |-> r.result.error.message])]
    ELSE [db |-> r.db,
          response |-> Json(200,
              [success |-> TRUE,
               accessToken |-> r.result.data.tokens.accessToken,
               refreshToken |-> r.result.data.tokens.refreshToken,
               identity |->
                   [id |-> r.result.data.identity.id,
                    tenantId |-> r.result.data.identity.tenantId,
                    userId |-> r.result.data.identity.userId,
                    email |-> r.result.data.identity.email,
                    roles |-> r.result.data.identity.roles]])]

postIdentityLink(db, identityId, body, t) ==
    IF ~LinkRequestSchema(body)
    THEN [db |-> db, response |-> Json(400, [error |-> "Invalid request body"])]
    ELSE linkResponse(linkIdentityToUser(db, identityId, body.userId,
                                         body.roles, t))

\* POST /internal/user/:userId/roles
rolesResponse(r) ==
    IF ~r.result.success
    THEN [db |-> r.db,
          response |-> Json(500, [error |-> r.result.error.message])]
    ELSE [db |-> r.db,
          response |-> Json(200, [success |-> TRUE,
                                  updatedCount |-> r.result.data])]

postUserRoles(db, tenantId, userId, body) ==
    IF ~UpdateRolesSchema(body)
    THEN [db |-> db, response |-> Json(400, [error |-> "Invalid request body"])]
    ELSE rolesResponse(updateUserRoles(db, tenantId, userId, body.roles))

\* DELETE /internal/user/:userId/sessions
sessionsResponse(r) ==
    IF ~r.result.success
    THEN [db |-> r.db,
          response |-> Json(500, [error |-> r.result.error.message])]
    ELSE [db |-> r.db,
          response |-> Json(200, [success |-> TRUE,
                                  revokedCount |-> r.result.data])]

deleteUserSessions(db, tenantId, userId) ==
    sessionsResponse(revokeUserSessions(db, tenantId, userId))

\* The answer h of a handler, marked with the last layer the request reached.
Reached(h, stage) == [db |-> h.db, response |-> h.response, stage |-> stage]

\* The link router served whatever the tenant middleware answered.
internalRoutersLinkUnscoped(tn, db, req, t) ==
    IF req.route = "link"
    THEN Reached(postIdentityLink(db, req.identityId, req.body, t), "handler")
    ELSE IF ~tn.next
    THEN [db |-> db, response |-> tn.response, stage |-> "tenant"]
    ELSE Reached(CASE req.route = "roles" ->
                          postUserRoles(db, tn.tenant, req.userId, req.body)
                   [] req.route = "sessions" ->
                          deleteUserSessions(db, tn.tenant, req.userId),
                 "handler")

\* The three routers behind the tenant middleware, whose answer is tn.
internalRouters(tn, db, req, t) ==
    IF ~tn.next
    THEN [db |-> db, response |-> tn.response, stage |-> "tenant"]
    ELSE Reached(CASE req.route = "link" ->
                          postIdentityLink(db, req.identityId, req.body, t)
                   [] req.route = "roles" ->
                          postUserRoles(db, tn.tenant, req.userId, req.body)
                   [] req.route = "sessions" ->
                          deleteUserSessions(db, tn.tenant, req.userId),
                 "handler")

\* The link router mounted in front of the tenant middleware.
createInternalRoutesLinkFirst(cfg, db, req, t) ==
    IF req.route = "link"
    THEN Reached(postIdentityLink(db, req.identityId, req.body, t), "handler")
    ELSE internalRouters(createTenantMiddleware(cfg, req.tenant), db, req, t)

\* createInternalRoutes: the tenant middleware, then the three routers.
createInternalRoutes(cfg, db, req, t) ==
    internalRouters(createTenantMiddleware(cfg, req.tenant), db, req, t)

\* app.use("/internal", internalAuthMiddleware, internalRoutes): stage is the
\* last layer the request reached.
internalRequest(cfg, db, req, t) ==
    IF ~createInternalAuthMiddleware(internalSecret, req.secret).next
    THEN [db |-> db,
          response |-> createInternalAuthMiddleware(internalSecret,
                                                    req.secret).response,
          stage |-> "auth"]
    ELSE createInternalRoutes(cfg, db, req, t)

-----------------------------------------------------------------------------
(* Google OAuth routes.  The browser's cookies are a function from cookie  *)
(* names to a text or NULL; a redirect carries the cookies it sets or      *)
(* clears.  What the provider answers (discovery, code exchange, claims)   *)
(* is part of the request as the environment decides it.                   *)

FlowCookies == {"oauth_state", "oauth_nonce", "oauth_code_verifier",
                "oauth_redirect", "oauth_tenant"}
AuthCookies == {"access_token", "refresh_token"}
NoCookies == [c \in FlowCookies \cup AuthCookies |-> NULL]

defaultRedirectUrl == "public-url"

Redirect(location, error, cookies) ==
    [kind |-> "redirect", location |-> location, error |-> error,
     cookies |-> cookies]

\* What the browser holds after a response.
ApplyCookies(jar, response) ==
    IF response.kind # "redirect" THEN jar
    ELSE [c \in DOMAIN jar |->
             IF c \in DOMAIN response.cookies
             THEN IF response.cookies[c].cleared THEN NULL
                  ELSE Some(response.cookies[c].value)
             ELSE jar[c]]

\* GET /auth/google: req.redirect is the redirect query parameter, a text
\* with whether new URL() accepts it, or NULL.
getGoogle(tenantId, req) ==
    LET redirectCookie ==
            IF req.redirect # NULL /\ req.redirect[1].href # ""
               /\ req.redirect[1].absolute
            THEN [c \in {"oauth_redirect"} |-> SetTo(req.redirect[1].href)]
            ELSE <<>>
    IN  IF req.oidc # "ok"
        THEN Redirect(defaultRedirectUrl, Some("oauth_failed"), redirectCookie)
        ELSE Redirect("google-authorization-url", NULL,
                 redirectCookie @@
                 [c \in FlowCookies \ {"oauth_redirect"} |->
                     CASE c = "oauth_state" -> SetTo("state")
                       [] c = "oauth_nonce" -> SetTo("nonce")
                       [] c = "oauth_code_verifier" -> SetTo("verifier")
                       [] c = "oauth_tenant" -> SetTo(tenantId)])

\* exchangeCodeForTokens, then extractUserInfo: TRUE when both go through.
\* The request carries what the provider sent back: the state parameter of
\* the callback URL, the verifier whose challenge the code was issued for,
\* the nonce claim of the ID token (NULL when it has none), and whether the
\* token endpoint accepts the code and returns claims.  The grant checks
\* hold expectedNonce only when the nonce cookie was read; the grant then
\* compares the nonce claim with it, and without it accepts only an ID token
\* that has no nonce claim.
exchangeCodeForTokens(req, codeVerifier, expectedState, expectedNonce) ==
    /\ req.exchange = "ok"
    /\ req.challengeOf = codeVerifier
    /\ req.state = expectedState
    /\ IF expectedNonce # NULL
       THEN req.nonceClaim = expectedNonce
       ELSE req.nonceClaim = NULL

\* GET /auth/google/callback, after the code exchange and extractUserInfo:
\* the flow cookies are cleared, then r is what handleOAuthLogin answered.
loginRedirect(r, finalRedirect) ==
    IF ~r.call.result[1].success
    THEN [db |-> r.db,
          response |-> Redirect(finalRedirect, Some("auth_failed"),
                                [c \in FlowCookies |-> Cleared])]
    ELSE [db |-> r.db,
          response |-> Redirect(finalRedirect, NULL,
              [c \in FlowCookies |-> Cleared] @@
              [c \in AuthCookies |->
                  IF c = "access_token"
                  THEN SetTo(r.call.result[1].data.tokens.accessToken)
                  ELSE SetTo(r.call.result[1].data.tokens.refreshToken)])]

\* GET /auth/google/callback: cookies are the request's cookies.
getGoogleCallback(db, cookies, req, t) ==
    IF req.oidc # "ok"
    THEN [db |-> db,
          response |-> Redirect(defaultRedirectUrl, Some("oauth_failed"), <<>>)]
    ELSE IF \/ cookies["oauth_state"] = NULL
            \/ cookies["oauth_code_verifier"] = NULL
            \/ cookies["oauth_tenant"] = NULL
    THEN [db |-> db,
          response |-> Redirect(defaultRedirectUrl, Some("invalid_state"), <<>>)]
    ELSE IF ~req.host
    THEN [db |-> db,
          response |-> Redirect(defaultRedirectUrl, Some("invalid_request"), <<>>)]
    ELSE IF ~exchangeCodeForTokens(req, cookies["oauth_code_verifier"][1],
                                   cookies["oauth_state"][1],
                                   cookies["oauth_nonce"])
    THEN [db |-> db,
          response |-> Redirect(defaultRedirectUrl, Some("oauth_failed"), <<>>)]
    ELSE loginRedirect(
             handleOAuthLogin(db,
                 NewCall(cookies["oauth_tenant"][1], "google", req.userInfo,
                         req.ip, req.userAgent), t),
             IF cookies["oauth_redirect"] # NULL
             THEN cookies["oauth_redirect"][1]
             ELSE defaultRedirectUrl)

\* The two routes behind the tenant middleware, whose answer is tn.
googleRoutes(tn, db, cookies, req, t) ==
    IF ~tn.next
    THEN [db |-> db, response |-> tn.response, stage |-> "tenant"]
    ELSE IF req.route = "google"
    THEN [db |-> db, response |-> getGoogle(tn.tenant, req), stage |-> "handler"]
    ELSE Reached(getGoogleCallback(db, cookies, req, t), "handler")

\* app.use("/auth", tenantMiddleware, googleRoutes): every request under
\* /auth passes the tenant middleware before the router looks at its path.
authRequest(cfg, db, cookies, req, t) ==
    googleRoutes(createTenantMiddleware(cfg, req.tenant), db, cookies, req, t)

-----------------------------------------------------------------------------
(* What the environment may send *)

Provider == "google"
IpAddress == Some("10.0.0.1")
UserAgent == Some("browser")

UserInfos ==
    {[id |-> "g-1", email |-> Some("ann@example.com"), name |-> Some("Ann"),
      picture |-> NULL, raw |-> "claims-1"],
     [id |-> "g-1", email |-> NULL, name |-> NULL,
      picture |-> Some("pic"), raw |-> "claims-2"],
     [id |-> "g-2", email |-> Some("bob@example.com"), name |-> NULL,
      picture |-> NULL, raw |-> "claims-3"]}

UserIds == {"alice"}
RoleLists == {<< <<"u">> >>, << <<"a">>, <<"u">> >>}

\* Ids and refresh tokens a caller may present: the ones in use and one
\* (written 0) that was never handed out.
IdentityIds == {identity[k].id : k \in 1..Len(identity)} \cup {0}
SessionIds == {session[k].id : k \in 1..Len(session)} \cup {0}
IssuedTokens == {generateRefreshToken([ids EXCEPT !.session = n]) : n \in 0..(ids.session - 1)}
PresentedTokens == IssuedTokens \cup {0}
OptionalTokens == {NULL} \cup {Some(tk) : tk \in PresentedTokens}

AccessTokens ==
    {g.accessToken : g \in wallet}
    \cup {[g.accessToken EXCEPT !.key = "wrong-secret"] : g \in wallet}
    \cup {[form |-> "text", text |-> "invalid-token"]}

-----------------------------------------------------------------------------
(* State *)

Db == [identity |-> identity, session |-> session, ids |-> ids]

Store(db) ==
    /\ identity' = db.identity
    /\ session' = db.session
    /\ ids' = db.ids

NoCall == [op |-> "none"]
Ready == ret = NoCall

Init ==
    /\ identity = <<>>
    /\ session = <<>>
    /\ now = 0
    /\ ids = [identity |-> 0, session |-> 0]
    /\ wallet = {}
    /\ ret = NoCall
    /\ calls = [c \in Callers |-> IdleCall]
    /\ tenantConfig = MultiTenant
    /\ browser = NoCookies

CanIssue == ids.session < MaxSessions

\* A login while fewer than maxSessions sessions have been issued.
HandleOAuthLoginWithin(tenantId, userInfo, maxSessions) ==
    /\ Ready
    /\ ids.session < maxSessions
    /\ \/ findByProvider(identity, tenantId, Provider, userInfo.id) # NULL
       \/ ids.identity < MaxIdentities
    /\ LET r == handleOAuthLogin(Db, NewCall(tenantId, Provider, userInfo,
                                             IpAddress, UserAgent), now)
       IN  /\ Store(r.db)
           /\ ret' = [op |-> "handleOAuthLogin", tenantId |-> tenantId,
                      userInfo |-> userInfo, result |-> r.call.result[1],
                      grant |-> r.grant]
    /\ UNCHANGED <<now, wallet, calls, web>>

HandleOAuthLogin(tenantId, userInfo) ==
    /\ CanIssue
    /\ HandleOAuthLoginWithin(tenantId, userInfo, MaxSessions)

\* A link while fewer than maxSessions sessions have been issued.
LinkIdentityToUserWithin(identityId, userId, roles, maxSessions) ==
    /\ Ready
    /\ ids.session < maxSessions
    /\ LET r == linkIdentityToUser(Db, identityId, userId, roles, now)
       IN  /\ Store(r.db)
           /\ ret' = [op |-> "linkIdentityToUser", identityId |-> identityId,
                      userId |-> userId, roles |-> roles, result |-> r.result,
                      grant |-> r.grant]
    /\ UNCHANGED <<now, wallet, calls, web>>

LinkIdentityToUser(identityId, userId, roles) ==
    /\ CanIssue
    /\ LinkIdentityToUserWithin(identityId, userId, roles, MaxSessions)

UpdateUserRoles(tenantId, userId, roles) ==
    /\ Ready
    /\ LET r == updateUserRoles(Db, tenantId, userId, roles)
       IN  /\ Store(r.db)
           /\ ret' = [op |-> "updateUserRoles", tenantId |-> tenantId,
                      userId |-> userId, roles |-> roles, result |-> r.result]
    /\ UNCHANGED <<now, wallet, calls, web>>

RevokeUserSessions(tenantId, userId) ==
    /\ Ready
    /\ LET r == revokeUserSessions(Db, tenantId, userId)
       IN  /\ Store(r.db)
           /\ ret' = [op |-> "revokeUserSessions", tenantId |-> tenantId,
                      userId |-> userId, result |-> r.result]
    /\ UNCHANGED <<now, wallet, calls, web>>

RevokeSession(sessionId) ==
    /\ Ready
    /\ LET r == revokeSession(session, sessionId)
       IN  /\ session' = r.session
           /\ ret' = [op |-> "revokeSession", sessionId |-> sessionId,
                      result |-> r.result]
    /\ UNCHANGED <<identity, ids, now, wallet, calls, web>>

RevokeAllIdentitySessions(identityId) ==
    /\ Ready
    /\ LET r == revokeAllIdentitySessions(session, identityId)
       IN  /\ session' = r.session
           /\ ret' = [op |-> "revokeAllIdentitySessions",
                      identityId |-> identityId, result |-> r.result]
    /\ UNCHANGED <<identity, ids, now, wallet, calls, web>>

ValidateRefreshToken(token) ==
    /\ Ready
    /\ ret' = [op |-> "validateRefreshToken", token |-> token,
               result |-> validateRefreshToken(session, token, now)]
    /\ UNCHANGED <<identity, session, ids, now, wallet, calls, web>>

VerifyAccessToken(token) ==
    /\ Ready
    /\ ret' = [op |-> "verifyAccessToken", token |-> token,
               result |-> verifyAccessToken(token, now)]
    /\ UNCHANGED <<identity, session, ids, now, wallet, calls, web>>

PostTokenRefresh(cookieToken, bodyToken) ==
    /\ Ready
    /\ LET r == postTokenRefresh(Db, cookieToken, bodyToken, now)
       IN  /\ Store(r.db)
           /\ ret' = [op |-> "postTokenRefresh", cookieToken |-> cookieToken,
                      bodyToken |-> bodyToken, response |-> r.response,
                      grant |-> r.grant]
    /\ UNCHANGED <<now, wallet, calls, web>>

PostLogout(cookieToken, bodyToken) ==
    /\ Ready
    /\ LET r == postLogout(Db, cookieToken, bodyToken, now)
       IN  /\ Store(r.db)
           /\ ret' = [op |-> "postLogout", cookieToken |-> cookieToken,
                      bodyToken |-> bodyToken, response |-> r.response]
    /\ UNCHANGED <<now, wallet, calls, web>>

DeleteExpired ==
    /\ Ready
    /\ LET r == deleteExpired(session, now)
       IN  /\ session' = r.session
           /\ ret' = [op |-> "deleteExpired", result |-> r.changes]
    /\ UNCHANGED <<identity, ids, now, wallet, calls, web>>

Tick ==
    /\ Ready
    /\ \E d \in TickDeltas :
           /\ now + d <= MaxNow
           /\ now' = now + d
    /\ UNCHANGED <<identity, session, ids, wallet, ret, calls, web>>

\* The caller takes the response; the service is ready for the next call.
Return ==
    /\ ~Ready
    /\ ret' = NoCall
    /\ UNCHANGED <<identity, session, now, ids, wallet, calls, web>>

\* The caller takes the response and keeps the access token it carries.
Pocket ==
    /\ ret.op \in {"handleOAuthLogin", "linkIdentityToUser", "postTokenRefresh"}
    /\ ret.grant # NULL
    /\ Cardinality(wallet) < MaxWallet
    /\ wallet' = wallet \cup {ret.grant[1]}
    /\ ret' = NoCall
    /\ UNCHANGED <<identity, session, now, ids, calls, web>>

\* The caller throws a token away.
Discard(grant) ==
    /\ Ready
    /\ grant \in wallet
    /\ wallet' = wallet \ {grant}
    /\ UNCHANGED <<identity, session, now, ids, ret, calls, web>>

StoreNext ==
    \/ \E tn \in Tenants, ui \in UserInfos : HandleOAuthLogin(tn, ui)
    \/ \E i \in IdentityIds, u \in UserIds, rl \in RoleLists :
           LinkIdentityToUser(i, u, rl)
    \/ \E tn \in Tenants, u \in UserIds, rl \in RoleLists :
           UpdateUserRoles(tn, u, rl)
    \/ \E tn \in Tenants, u \in UserIds : RevokeUserSessions(tn, u)
    \/ \E sid \in SessionIds : RevokeSession(sid)
    \/ \E i \in IdentityIds : RevokeAllIdentitySessions(i)
    \/ \E tk \in PresentedTokens : ValidateRefreshToken(tk)
    \/ \E ck \in OptionalTokens, bd \in OptionalTokens : PostTokenRefresh(ck, bd)
    \/ \E ck \in OptionalTokens, bd \in OptionalTokens : PostLogout(ck, bd)
    \/ DeleteExpired
    \/ Tick
    \/ Return

\* The stores and the refresh-token side of the service.
Spec == Init /\ [][StoreNext]_vars

\* The same with callers that keep access tokens and have them verified.
TokenNext ==
    \/ StoreNext
    \/ \E tk \in AccessTokens : VerifyAccessToken(tk)
    \/ Pocket
    \/ \E g \in wallet : Discard(g)

SpecTokens == Init /\ [][TokenNext]_vars

-----------------------------------------------------------------------------
(* Concurrent logins.  handleOAuthLogin awaits the lookup, the insert and  *)
(* the token issue one after the other; requests served at the same time   *)
(* (by one process between its awaits, or by several processes on one      *)
(* database) take these steps in any order.  calls[c] is the position of   *)
(* request c and the locals it holds.                                      *)

LoginFind(c, tenantId, userInfo) ==
    /\ calls[c].pc = "idle"
    /\ LET r == StepFind(Db, NewCall(tenantId, Provider, userInfo,
                                     IpAddress, UserAgent))
       IN  calls' = [calls EXCEPT ![c] = r.call]
    /\ UNCHANGED <<identity, session, ids, now, wallet, ret, web>>

LoginCreate(c) ==
    /\ calls[c].pc = "create"
    /\ ids.identity < MaxIdentities
    /\ LET r == StepCreate(Db, calls[c])
       IN  /\ Store(r.db)
           /\ calls' = [calls EXCEPT ![c] = r.call]
    /\ UNCHANGED <<now, wallet, ret, web>>

LoginTokens(c) ==
    /\ calls[c].pc = "tokens"
    /\ CanIssue
    /\ LET r == StepTokens(Db, calls[c], now)
       IN  /\ Store(r.db)
           /\ calls' = [calls EXCEPT ![c] = r.call]
    /\ UNCHANGED <<now, wallet, ret, web>>

LoginReturn(c) ==
    /\ calls[c].pc = "done"
    /\ calls' = [calls EXCEPT ![c] = IdleCall]
    /\ UNCHANGED <<identity, session, ids, now, wallet, ret, web>>

RaceNext ==
    \/ \E c \in Callers, tn \in Tenants, ui \in UserInfos : LoginFind(c, tn, ui)
    \/ \E c \in Callers : LoginCreate(c)
    \/ \E c \in Callers : LoginTokens(c)
    \/ \E c \in Callers : LoginReturn(c)
    \/ Tick

SpecRace == Init /\ [][RaceNext]_vars

-----------------------------------------------------------------------------
(* The HTTP surface: requests to /internal and /auth of a server started   *)
(* in single-tenant or multi-tenant mode, one browser following the OAuth  *)
(* flow.                                                                   *)

MaxAdminSessions == 4   \* sessions created in one behaviour of SpecAdmin

\* req.query.tenant: absent, empty, configured, or not configured.
Selectors == {NULL, Some(""), Some("t1"), Some("t2"), Some("zz")}
Secrets == {NULL, Some(internalSecret), Some("wrong-secret")}
LinkBodies == {[userId |-> u, roles |-> rl] :
                   u \in UserIds \cup {"al"}, rl \in RoleLists \cup {<<>>}}
RolesBodies == {[roles |-> rl] : rl \in RoleLists \cup {<<>>}}

InternalRequests(secrets, selectors) ==
    {[secret |-> sc, tenant |-> sel, route |-> "link",
      identityId |-> i, userId |-> "", body |-> b] :
         sc \in secrets, sel \in selectors, i \in IdentityIds, b \in LinkBodies}
    \cup {[secret |-> sc, tenant |-> sel, route |-> "roles",
           identityId |-> 0, userId |-> u, body |-> b] :
              sc \in secrets, sel \in selectors, u \in UserIds, b \in RolesBodies}
    \cup {[secret |-> sc, tenant |-> sel, route |-> "sessions",
           identityId |-> 0, userId |-> u, body |-> [roles |-> <<>>]] :
              sc \in secrets, sel \in selectors, u \in UserIds}

RedirectParams == {NULL, Some([href |-> "https://app/home", absolute |-> TRUE]),
                   Some([href |-> "home", absolute |-> FALSE])}

StartRequests(selectors, redirects, answers) ==
    {[route |-> "google", tenant |-> sel, redirect |-> rd, oidc |-> o] :
         sel \in selectors, rd \in redirects, o \in answers}

\* Callbacks of flows the server started: state, challenge and nonce claim
\* are the issued ones; the token endpoint accepts the code, rejects it, or
\* returns a token without claims.
CallbackRequests(selectors, answers, hosts, exchanges, userInfos) ==
    {[route |-> "google/callback", tenant |-> sel, oidc |-> o, host |-> h,
      exchange |-> x, userInfo |-> ui, ip |-> IpAddress, userAgent |-> UserAgent,
      state |-> "state", challengeOf |-> "verifier", nonceClaim |-> Some("nonce")] :
         sel \in selectors, o \in answers, h \in hosts,
         x \in exchanges, ui \in userInfos}

InitWeb ==
    /\ identity = <<>>
    /\ session = <<>>
    /\ now = 0
    /\ ids = [identity |-> 0, session |-> 0]
    /\ wallet = {}
    /\ ret = NoCall
    /\ calls = [c \in Callers |-> IdleCall]
    /\ tenantConfig \in {SingleTenant, MultiTenant}
    /\ browser = NoCookies

\* The step stays within the sessions and identities of one behaviour.
WithinBudget(db, maxSessions) ==
    /\ db.ids.identity <= MaxIdentities
    /\ db.ids.session <= maxSessions

\* The server answers req with r: the database and the browser take what
\* the handler and the response left.
Answer(op, req, r, maxSessions) ==
    /\ WithinBudget(r.db, maxSessions)
    /\ Store(r.db)
    /\ browser' = ApplyCookies(browser, r.response)
    /\ ret' = [op |-> op, req |-> req, response |-> r.response,
               stage |-> r.stage]

\* An administrator's client sends one of the requests reqs.
InternalRequest(reqs, maxSessions) ==
    /\ Ready
    /\ \E req \in reqs :
           Answer("internal", req, internalRequest(tenantConfig, Db, req, now),
                  maxSessions)
    /\ UNCHANGED <<now, wallet, calls, tenantConfig>>

\* The browser sends one of the requests reqs with its cookies and keeps
\* what the response sets.
AuthRequest(reqs, maxSessions) ==
    /\ Ready
    /\ \E req \in reqs :
           Answer("auth", req, authRequest(tenantConfig, Db, browser, req, now),
                  maxSessions)
    /\ UNCHANGED <<now, wallet, calls, tenantConfig>>

\* Every kind of request, against a database of few rows.
WebNext ==
    \/ InternalRequest(InternalRequests(Secrets, Selectors), MaxSessions)
    \/ AuthRequest(StartRequests(Selectors, RedirectParams, {"ok", "down"})
                   \cup CallbackRequests(Selectors, {"ok", "down"}, BOOLEAN,
                                         {"ok", "rejected", "no-claims"},
                                         UserInfos),
                   MaxSessions)
    \/ Return

SpecWeb == InitWeb /\ [][WebNext]_vars

\* An administrator holding the secret, and logins that go through, against
\* a database that grows to two linked identities.
AdminUserInfos == {ui \in UserInfos : ui.raw = "claims-1"}

AdminNext ==
    \/ InternalRequest(InternalRequests({Some(internalSecret)},
                                        {NULL, Some("t1"), Some("t2")}),
                       MaxAdminSessions)
    \/ AuthRequest(StartRequests({NULL, Some("t1"), Some("t2")}, {NULL}, {"ok"})
                   \cup CallbackRequests({NULL, Some("t1"), Some("t2")}, {"ok"},
                                         {TRUE}, {"ok"}, AdminUserInfos),
                   MaxAdminSessions)
    \/ Return

SpecAdmin == InitWeb /\ [][AdminNext]_vars

\* The OAuth flow against clients and callbacks of every kind: the cookies
\* are unsigned, so a client may delete any of them or write its own (as
\* the tenant, a configured one or "t9", which no configuration lists), and
\* a callback may carry a state, a code and an ID token of another flow.
ClientValues(c) == IF c = "oauth_tenant" THEN {"t1", "t9"} ELSE {"forged"}

EditCookie(c, v) ==
    /\ Ready
    /\ browser[c] # v
    /\ browser' = [browser EXCEPT ![c] = v]
    /\ UNCHANGED <<identity, session, now, ids, wallet, ret, calls, tenantConfig>>

FlowCallbacks ==
    {[route |-> "google/callback", tenant |-> sel, oidc |-> "ok", host |-> TRUE,
      exchange |-> x, userInfo |-> ui, ip |-> IpAddress, userAgent |-> UserAgent,
      state |-> st, challengeOf |-> ch, nonceClaim |-> nc] :
         sel \in {NULL, Some("t1")}, x \in {"ok", "rejected"},
         ui \in AdminUserInfos, st \in {"state", "forged"},
         ch \in {"verifier", "forged"},
         nc \in {NULL, Some("nonce"), Some("forged")}}

FlowNext ==
    \/ AuthRequest(StartRequests({NULL, Some("t1")}, {NULL}, {"ok"})
                   \cup FlowCallbacks, MaxSessions)
    \/ \E c \in FlowCookies \ {"oauth_redirect"} :
           \E v \in {NULL} \cup {Some(x) : x \in ClientValues(c)} :
               EditCookie(c, v)
    \/ Return

SpecFlow == InitWeb /\ [][FlowNext]_vars

\* Logins and links of one account, often enough for a login to follow a
\* link and a link to follow a link.
MaxLoginSessions == 4   \* sessions created in one behaviour of SpecLogin

\* Role lists the link schema also accepts: a role with a comma in it, and
\* a role that is the empty string.
EdgeRoleLists == {<< <<"a", ",", "u">> >>, << <<>> >>}

LoginNext ==
    \/ \E tn \in Tenants, ui \in UserInfos :
           HandleOAuthLoginWithin(tn, ui, MaxLoginSessions)
    \/ \E i \in IdentityIds, u \in UserIds \cup {"bob"},
          rl \in RoleLists \cup EdgeRoleLists :
           LinkIdentityToUserWithin(i, u, rl, MaxLoginSessions)
    \/ \E tn \in Tenants, u \in UserIds, rl \in RoleLists \cup EdgeRoleLists :
           UpdateUserRoles(tn, u, rl)
    \/ Return

SpecLogin == Init /\ [][LoginNext]_vars

-----------------------------------------------------------------------------
(* parseExpiry on its own: the texts a configuration may hold, over digits, *)
(* the units, a letter that is no unit, a sign, a point and a blank.        *)

MaxExpiryLen == 3
ExpiryChars == {"0", "1", "9", "s", "m", "h", "d", "w", "x", "-", ".", " "}
ExpiryTexts == UNION {[1..n -> ExpiryChars] : n \in 0..MaxExpiryLen}

ParseExpiry(texts) ==
    /\ Ready
    /\ \E expiry \in texts :
           ret' = [op |-> "parseExpiry", expiry |-> expiry,
                   result |-> parseExpiry(expiry)]
    /\ UNCHANGED <<identity, session, now, ids, wallet, calls, web>>

ExpiryNext ==
    \/ ParseExpiry(ExpiryTexts)
    \/ Return

SpecExpiry == Init /\ [][ExpiryNext]_vars

-----------------------------------------------------------------------------
(* Properties *)

\* The stored rows a refresh token resolves to.
RowsOfToken(tk) == Where(session, LAMBDA s : s.token_hash = hashToken(tk))

\* What validateRefreshToken answers for a token in the current state.
Outcome(tk) == validateRefreshToken(session, tk, now)
Rejected(tk, message) ==
    /\ ~Outcome(tk).success
    /\ Outcome(tk).error.message = message
RevokedOutcome(tk) == Rejected(tk, "Session has been revoked")
GoneOutcome(tk) == RowsOfToken(tk) = <<>> /\ Rejected(tk, "Invalid refresh token")
RowRevoked(tk) == RowsOfToken(tk) # <<>> /\ RowsOfToken(tk)[1].revoked = 1

\* C1: once a stored session's revoked flag is set, it stays set for as long
\* as the row exists; no operation puts it back to unrevoked.
C1_RevokedStaysSet ==
    [][\A k \in 1..Len(session) :
          session[k].revoked = 1 =>
              \A j \in 1..Len(session') :
                  session'[j].id = session[k].id => session'[j].revoked = 1]_vars

\* A session of an identity is revoked, and the identity was then linked
\* again, which issued it a further session.
C1_Witness ==
    /\ ret.op = "linkIdentityToUser"
    /\ ret.result.success
    /\ \E k \in 1..Len(session) :
           /\ session[k].identity_id = ret.identityId
           /\ session[k].revoked = 1

\* C2 as stated: once a session is revoked, its refresh token is rejected as
\* revoked after every later step.
C2_RevokedOutcomeForever ==
    [][\A tk \in IssuedTokens : RowRevoked(tk) => RevokedOutcome(tk)']_vars

\* C2, amended: once a session is revoked, its refresh token stays rejected
\* after every later step: as revoked while the row is stored, and as an
\* unknown token once the expiry sweep has deleted the row.
C2_RevokedStaysRejected ==
    [][\A tk \in IssuedTokens :
          /\ RowRevoked(tk)' => RevokedOutcome(tk)'
          /\ RowRevoked(tk) => (RevokedOutcome(tk)' \/ GoneOutcome(tk)')
          /\ GoneOutcome(tk) => GoneOutcome(tk)']_vars

\* A revoked session's token is presented and rejected as revoked after
\* the identity has been issued a later session.
C2_Witness ==
    /\ ret.op = "validateRefreshToken"
    /\ ~ret.result.success
    /\ ret.result.error.message = "Session has been revoked"
    /\ \E k \in 1..Len(session) :
           /\ session[k].token_hash = hashToken(ret.token)
           /\ session[k].revoked = 1
           /\ \E j \in (k + 1)..Len(session) :
                  session[j].identity_id = session[k].identity_id

\* C3 as stated: validateRefreshToken succeeds on a stored session's token,
\* returning that session, exactly when the session is not revoked and its
\* expiresAt is strictly after now.
C3_UsableIffUnrevokedAndUnexpired ==
    \A k \in 1..Len(session) :
        LET r == validateRefreshToken(session, session[k].token_hash[2], now)
        IN  /\ r.success <=> (/\ session[k].revoked = 0
                              /\ parseDate(session[k].expires_at) > now)
            /\ r.success => r.data.id = session[k].id

\* C4: validateRefreshToken checks not-found, then revoked, then expired: an
\* unknown token is invalid, a revoked session is reported revoked even when
\* it is also expired, expired is reported only for a stored unrevoked
\* session, and every rejection carries the code INVALID_TOKEN.
C4_CheckOrder ==
    ret.op = "validateRefreshToken" =>
        LET rows == RowsOfToken(ret.token)
            r == ret.result
        IN  /\ rows = <<>> =>
                   ~r.success /\ r.error.message = "Invalid refresh token"
            /\ (rows # <<>> /\ rows[1].revoked = 1) =>
                   ~r.success /\ r.error.message = "Session has been revoked"
            /\ (~r.success /\ r.error.message = "Refresh token expired") =>
                   rows # <<>> /\ rows[1].revoked = 0
            /\ ~r.success => r.error.code = "INVALID_TOKEN"

\* The token of a session that is both revoked and expired was presented.
C4_Witness ==
    /\ ret.op = "validateRefreshToken"
    /\ RowsOfToken(ret.token) # <<>>
    /\ RowsOfToken(ret.token)[1].revoked = 1
    /\ parseDate(RowsOfToken(ret.token)[1].expires_at) < now
    /\ ~ret.result.success

RowsOfSession(id) == Where(session, LAMBDA s : s.id = id)

\* C6: verifyAccessToken decides on signature and expiry alone: a token
\* issued for a session verifies, whatever has become of the session, until
\* the token's own expiry, and is rejected as expired from then on.
C6_VerifyIgnoresSessions ==
    ret.op = "verifyAccessToken" =>
        \A g \in wallet :
            ret.token = g.accessToken =>
                IF now \div MsPerSecond < g.accessToken.payload.exp
                THEN ret.result.success
                ELSE /\ ~ret.result.success
                     /\ ret.result.error.code = "INVALID_TOKEN"
                     /\ ret.result.error.message = "Token expired"

\* A token verified although the sweep has deleted the session it was
\* issued for.
C6_Witness ==
    /\ ret.op = "verifyAccessToken"
    /\ ret.result.success
    /\ \E g \in wallet :
           /\ ret.token = g.accessToken
           /\ RowsOfSession(g.sessionId) = <<>>

\* C7: the access token generateTokens returns for an identity verifies,
\* before it expires, with sub, tenant, userId and roles of that identity
\* and with the id of the session that the same call created.
C7_TokenRoundTrip ==
    /\ (ret.op \in {"handleOAuthLogin", "linkIdentityToUser"} /\ ret.grant # NULL) =>
           LET g == ret.grant[1]
               created == session[Len(session)]
           IN  /\ g.accessToken = ret.result.data.tokens.accessToken
               /\ g.identity = ret.result.data.identity
               /\ created.id = g.sessionId
               /\ created.identity_id = g.identity.id
               /\ created.token_hash = hashToken(ret.result.data.tokens.refreshToken)
    /\ ret.op = "verifyAccessToken" =>
           \A g \in wallet :
               (/\ ret.token = g.accessToken
                /\ now \div MsPerSecond < g.accessToken.payload.exp) =>
                   /\ ret.result.success
                   /\ ret.result.data.sub = g.identity.id
                   /\ ret.result.data.tenant = g.identity.tenantId
                   /\ ret.result.data.userId = g.identity.userId
                   /\ ret.result.data.roles = g.identity.roles
                   /\ ret.result.data.sessionId = g.sessionId

\* The token of a linked identity, with a user id and two roles, was kept
\* and verified at a later time.
C7_Witness ==
    /\ ret.op = "verifyAccessToken"
    /\ ret.result.success
    /\ \E g \in wallet :
           /\ ret.token = g.accessToken
           /\ g.identity.userId # NULL
           /\ Len(g.identity.roles) = 2
           /\ now > g.accessToken.payload.iat * MsPerSecond

\* The natural key of a stored identity.
ProviderKey(row) == <<row.tenant_id, row.provider, row.provider_user_id>>

\* C8: no two stored identities share (tenantId, provider, providerUserId),
\* also when logins interleave; the same provider account may be stored once
\* in each tenant.
C8_ProviderKeyUnique ==
    \A j, k \in 1..Len(identity) :
        j # k => ProviderKey(identity[j]) # ProviderKey(identity[k])

\* Two logins raced for one key and one insert lost, and the same provider
\* account is stored under two tenants.
C8_Witness ==
    /\ \E c \in Callers :
           /\ calls[c].pc = "done"
           /\ ~calls[c].result[1].success
    /\ \E j, k \in 1..Len(identity) :
           /\ identity[j].tenant_id # identity[k].tenant_id
           /\ identity[j].provider = identity[k].provider
           /\ identity[j].provider_user_id = identity[k].provider_user_id

\* C9 as stated: two logins for the same (tenant, provider, subject) that
\* ran at the same time both succeed and both return the same identity id.
C9_BothRacersSucceed ==
    \A c, d \in Callers :
        (/\ c # d
         /\ calls[c].pc = "done"
         /\ calls[d].pc = "done"
         /\ calls[c].tenantId = calls[d].tenantId
         /\ calls[c].provider = calls[d].provider
         /\ calls[c].userInfo.id = calls[d].userInfo.id) =>
            /\ calls[c].result[1].success
            /\ calls[d].result[1].success
            /\ calls[c].result[1].data.identity.id = calls[d].result[1].data.identity.id

\* C10: a login under a tenant returns an identity of that tenant, stored
\* identities of different tenants are different identities, and a lookup by
\* (tenant, provider, subject) never returns another tenant's identity.
C10_TenantIsolation ==
    /\ \A tn \in Tenants, ui \in UserInfos :
           LET found == findByProvider(identity, tn, Provider, ui.id)
           IN  found # NULL =>
                   /\ found[1].tenantId = tn
                   /\ found[1].providerUserId = ui.id
    /\ \A j, k \in 1..Len(identity) :
           identity[j].tenant_id # identity[k].tenant_id =>
               identity[j].id # identity[k].id
    /\ (ret.op = "handleOAuthLogin" /\ ret.result.success) =>
           /\ ret.result.data.identity.tenantId = ret.tenantId
           /\ ret.result.data.identity.providerUserId = ret.userInfo.id
           /\ \E k \in 1..Len(identity) :
                  /\ identity[k].id = ret.result.data.identity.id
                  /\ identity[k].tenant_id = ret.tenantId

\* A subject stored under one tenant logged in under the other, which
\* created a second identity.
C10_Witness ==
    /\ ret.op = "handleOAuthLogin"
    /\ ret.result.success
    /\ ret.result.data.isNew
    /\ \E k \in 1..Len(identity) :
           /\ identity[k].tenant_id # ret.tenantId
           /\ identity[k].provider_user_id = ret.userInfo.id
           /\ identity[k].id # ret.result.data.identity.id

\* The tenant an internal or /auth request was served under.
ServedTenant == createTenantMiddleware(tenantConfig, ret.req.tenant).tenant

\* The last request was POST /internal/user/:userId/roles with a valid body
\* and reached updateUserRoles.
RolesServed ==
    /\ ret.op = "internal"
    /\ ret.stage = "handler"
    /\ ret.req.route = "roles"
    /\ UpdateRolesSchema(ret.req.body)

\* The identity rows of (tenantId, userId).
RowsOfUser(tbl, tenantId, userId) ==
    {k \in 1..Len(tbl) :
        tbl[k].tenant_id = tenantId /\ tbl[k].user_id = Some(userId)}

\* C11: updateUserRoles(tenant, userId, roles) answers with success and the
\* number of identities of (tenant, userId), which may be 0; exactly those
\* identities get the new roles and nothing else of them changes; every
\* other identity (the same user in another tenant, an unlinked identity)
\* and every session stay as they were.
C11_UpdateRolesFrame ==
    [][RolesServed' =>
          LET hit == RowsOfUser(identity, ServedTenant', ret'.req.userId)
          IN  /\ ret'.response.status = 200
              /\ ret'.response.body.success
              /\ ret'.response.body.updatedCount = Cardinality(hit)
              /\ Len(identity') = Len(identity)
              /\ \A k \in 1..Len(identity) :
                     identity'[k] =
                         IF k \in hit
                         THEN [identity[k] EXCEPT
                                  !.roles = Some(joinCsv(ret'.req.body.roles))]
                         ELSE identity[k]
              /\ session' = session
              /\ ids' = ids]_vars

\* A roles update that changed an identity while the same user's identity
\* in the other tenant, and an existing session, kept what they had.
C11_Witness ==
    /\ RolesServed
    /\ ret.response.body.updatedCount >= 1
    /\ session # <<>>
    /\ \E k \in 1..Len(identity) :
           /\ identity[k].tenant_id # ServedTenant
           /\ identity[k].user_id = Some(ret.req.userId)
           /\ identity[k].roles # Some(joinCsv(ret.req.body.roles))

\* The last request was DELETE /internal/user/:userId/sessions and reached
\* revokeUserSessions.
SessionsServed ==
    /\ ret.op = "internal"
    /\ ret.stage = "handler"
    /\ ret.req.route = "sessions"

\* The ids of the identities of (tenantId, userId).
IdsOfUser(tbl, tenantId, userId) ==
    {tbl[k].id : k \in RowsOfUser(tbl, tenantId, userId)}

\* C12: revokeUserSessions(tenant, userId) leaves every session of every
\* identity of (tenant, userId) revoked, answers with the number of them
\* that were not revoked before, and changes no session of any other
\* identity (the same user's identity in another tenant included) and no
\* identity.
C12_RevokeUserSessionsFrame ==
    [][SessionsServed' =>
          LET owners == IdsOfUser(identity, ServedTenant', ret'.req.userId)
          IN  /\ ret'.response.status = 200
              /\ ret'.response.body.revokedCount =
                     Cardinality({k \in 1..Len(session) :
                                     /\ session[k].identity_id \in owners
                                     /\ session[k].revoked = 0})
              /\ Len(session') = Len(session)
              /\ \A k \in 1..Len(session) :
                     session'[k] =
                         IF session[k].identity_id \in owners
                         THEN [session[k] EXCEPT !.revoked = 1]
                         ELSE session[k]
              /\ identity' = identity
              /\ ids' = ids]_vars

\* A revocation that revoked a session while a session of the same user's
\* identity in the other tenant stayed usable.
C12_Witness ==
    /\ SessionsServed
    /\ ret.response.body.revokedCount >= 1
    /\ \E k \in 1..Len(session), j \in 1..Len(identity) :
           /\ session[k].identity_id = identity[j].id
           /\ identity[j].tenant_id # ServedTenant
           /\ identity[j].user_id = Some(ret.req.userId)
           /\ session[k].revoked = 0

\* revokeAllIdentitySessions called on each of the identities in turn, the
\* returned counts summed.
RECURSIVE RevokeIdentitiesInTurn(_, _, _)
RevokeIdentitiesInTurn(tbl, identities, total) ==
    IF identities = <<>> THEN [session |-> tbl, result |-> success(total)]
    ELSE LET r == revokeAllIdentitySessions(tbl, identities[1].id)
         IN  RevokeIdentitiesInTurn(r.session, Tail(identities),
                                    total + r.result.data)

\* The identities of (tenantId, userId), in row order.
IdentitiesOfUser(tenantId, userId) ==
    SelectSeq(identity,
              LAMBDA i : i.tenant_id = tenantId /\ i.user_id = Some(userId))

\* C13: from every state and for every (tenant, userId),
\* revokeAllUserSessions leaves the session store and returns the count
\* that calling revokeAllIdentitySessions on each identity of
\* (tenant, userId) and summing the counts does, sessions that are already
\* revoked included.
C13_UserRevocationIsSumOfIdentityRevocations ==
    \A tn \in Tenants, u \in UserIds :
        LET whole == revokeAllUserSessions(identity, session, tn, u)
            parts == RevokeIdentitiesInTurn(session, IdentitiesOfUser(tn, u), 0)
        IN  /\ whole.session = parts.session
            /\ whole.result = parts.result

\* The last request came to the tenant middleware.
AtResolver ==
    /\ ret.op \in {"internal", "auth"}
    /\ ret.stage \in {"tenant", "handler"}

\* The middleware answered the last request itself, with this error.
RejectedWith(message) ==
    /\ ret.stage = "tenant"
    /\ ret.response = Json(400, [error |-> message])

\* The last request went on to its handler under tenant tn: the start of a
\* flow stores tn for the callback, a role update and a revocation count
\* the rows of tn.
ResolvedTo(tn) ==
    /\ ret.stage = "handler"
    /\ (ret.op = "auth" /\ ret.req.route = "google" /\ ret.req.oidc = "ok") =>
           ret.response.cookies["oauth_tenant"] = SetTo(tn)
    /\ (ret.op = "internal" /\ ret.req.route = "roles"
        /\ UpdateRolesSchema(ret.req.body)) =>
           ret.response.body.updatedCount =
               Cardinality(RowsOfUser(identity, tn, ret.req.userId))

\* The outcome the resolver's rules give the last request.
ResolverOutcome ==
    LET sel == ret.req.tenant
        allowed == {tenantConfig.tenants[k] : k \in 1..Len(tenantConfig.tenants)}
    IN  IF tenantConfig.mode = "single"
        THEN IF sel # NULL
             THEN RejectedWith("tenant parameter not allowed in single-tenant mode")
             ELSE ResolvedTo(tenantConfig.tenants[1])
        ELSE IF sel = NULL \/ sel = Some("")
             THEN RejectedWith("tenant parameter required")
             ELSE IF sel[1] \notin allowed
             THEN RejectedWith("invalid tenant")
             ELSE ResolvedTo(sel[1])

\* C14: what the tenant resolver does with a request depends on the mode,
\* the allow-list and the selector alone.  Single mode: any selector, the
\* empty one included, is rejected, and no selector resolves to the
\* configured tenant.  Multi mode: no selector or an empty one is rejected
\* with 'tenant parameter required', one outside the allow-list with
\* 'invalid tenant', and any other resolves to itself.  A rejected request
\* does not reach the handler: no row and no cookie changes.
C14_TenantResolver ==
    [][AtResolver' =>
          /\ ResolverOutcome'
          /\ ret'.stage = "tenant" =>
                 /\ identity' = identity
                 /\ session' = session
                 /\ ids' = ids
                 /\ browser' = browser]_vars

\* Multi mode: a login started with the second tenant of the allow-list as
\* its selector and the handler stored that tenant for the callback.
C14_Witness ==
    /\ tenantConfig.mode = "multi"
    /\ ret.op = "auth"
    /\ ret.req.route = "google"
    /\ ret.req.tenant = Some("t2")
    /\ ret.stage = "handler"
    /\ browser["oauth_tenant"] = Some("t2")

\* The last request was the provider's redirect to /auth/google/callback.
CallbackReceived ==
    /\ ret.op = "auth"
    /\ ret.req.route = "google/callback"

\* The browser holds what the start of a flow stored for the callback.
FlowStored ==
    /\ browser["oauth_state"] # NULL
    /\ browser["oauth_code_verifier"] # NULL
    /\ browser["oauth_tenant"] # NULL

\* C15: the callback is not subjected to the tenant resolver: in multi
\* mode a callback without a tenant selector, sent by a browser that holds
\* the state, code verifier and tenant of a started flow, reaches the
\* callback handler.
C15_CallbackSkipsResolver ==
    [][(/\ tenantConfig.mode = "multi"
        /\ FlowStored
        /\ CallbackReceived'
        /\ ret'.req.tenant = NULL)
       => ret'.stage = "handler"]_vars

\* The last request was an internal one that carried the configured secret.
InternalAdmitted ==
    /\ ret.op = "internal"
    /\ ret.req.secret = Some(internalSecret)

\* The selector of the last request is absent, empty or not configured.
SelectorUnusable ==
    \/ ret.req.tenant = NULL
    \/ ret.req.tenant = Some("")
    \/ \A k \in 1..Len(tenantConfig.tenants) :
           tenantConfig.tenants[k] # ret.req.tenant[1]

\* C16: in multi mode every internal request (identity link, role update,
\* session revocation) that carries the secret and whose tenant selector is
\* absent, empty or outside the allow-list is answered 400 by the tenant
\* middleware, before its handler reads or changes any identity or session;
\* a link request without a selector gets 'tenant parameter required'.
C16_InternalNeedsTenant ==
    [][(/\ tenantConfig.mode = "multi"
        /\ InternalAdmitted'
        /\ SelectorUnusable')
       => /\ ret'.stage = "tenant"
          /\ ret'.response.status = 400
          /\ identity' = identity
          /\ session' = session
          /\ ids' = ids
          /\ (ret'.req.route = "link" /\ ret'.req.tenant = NULL) =>
                 ret'.response.body.error = "tenant parameter required"]_vars

\* Multi mode: a well-formed link request for a stored, unlinked identity
\* came without a selector and was rejected; the identity is still unlinked.
C16_Witness ==
    /\ tenantConfig.mode = "multi"
    /\ InternalAdmitted
    /\ ret.req.route = "link"
    /\ ret.req.tenant = NULL
    /\ LinkRequestSchema(ret.req.body)
    /\ ret.response = Json(400, [error |-> "tenant parameter required"])
    /\ \E k \in 1..Len(identity) :
           /\ identity[k].id = ret.req.identityId
           /\ identity[k].user_id = NULL

\* The last request was a well-formed link request that carried the secret.
LinkAdmitted ==
    /\ InternalAdmitted
    /\ ret.req.route = "link"
    /\ LinkRequestSchema(ret.req.body)

\* C17, as stated: linkIdentityToUser neither consults nor requires a
\* tenant selector: in multi mode a correctly authenticated, well-formed
\* link request for a stored identity that carries no tenant selector
\* succeeds and links the identity.
C17_LinkNeedsNoSelector ==
    [][(/\ tenantConfig.mode = "multi"
        /\ LinkAdmitted'
        /\ ret'.req.tenant = NULL
        /\ \E k \in 1..Len(identity) : identity[k].id = ret'.req.identityId)
       => /\ ret'.response.status = 200
          /\ \E k \in 1..Len(identity') :
                 /\ identity'[k].id = ret'.req.identityId
                 /\ identity'[k].user_id = Some(ret'.req.body.userId)]_vars

\* C17, amended: the link handler never looks at the tenant selector's
\* value and links the identity under the tenant of its row, but the link
\* route sits behind the tenant resolver.  In multi mode a correctly
\* authenticated, well-formed link request for a stored identity succeeds,
\* links the identity and opens one new session for it exactly when its
\* selector is on the allow-list, whichever allowed tenant it names; with
\* no selector, an empty one or one outside the allow-list it is answered
\* 400 and nothing changes.
C17_LinkBehindResolver ==
    [][(/\ tenantConfig.mode = "multi"
        /\ LinkAdmitted'
        /\ \E k \in 1..Len(identity) : identity[k].id = ret'.req.identityId)
       => LET k == CHOOSE j \in 1..Len(identity) :
                       identity[j].id = ret'.req.identityId
          IN  IF SelectorUnusable'
              THEN /\ ret'.response.status = 400
                   /\ identity' = identity
                   /\ session' = session
              ELSE /\ ret'.response.status = 200
                   /\ ret'.response.body.identity.tenantId = identity[k].tenant_id
                   /\ identity' =
                          [identity EXCEPT ![k] =
                              [@ EXCEPT !.user_id = Some(ret'.req.body.userId),
                                        !.roles = Some(joinCsv(ret'.req.body.roles))]]
                   /\ Len(session') = Len(session) + 1
                   /\ SubSeq(session', 1, Len(session)) = session
                   /\ session'[Len(session')].identity_id = identity[k].id]_vars

\* Multi mode: an identity of tenant t1 was linked by a request whose
\* selector named t2.
C17_Witness ==
    /\ tenantConfig.mode = "multi"
    /\ LinkAdmitted
    /\ ret.req.tenant = Some("t2")
    /\ ret.response.status = 200
    /\ ret.response.body.identity.tenantId = "t1"
    /\ \E k \in 1..Len(identity) :
           /\ identity[k].id = ret.req.identityId
           /\ identity[k].tenant_id = "t1"
           /\ identity[k].user_id = Some(ret.req.body.userId)

\* C18: an internal request that does not carry the configured secret (no
\* header, or another value) is answered 401 by the first layer, whatever
\* its tenant selector, and neither the tenant resolver nor a handler runs:
\* no identity changes, no session is created and none is revoked.
C18_NoSecretNoEffect ==
    [][(/\ ret'.op = "internal"
        /\ ret'.req.secret # Some(internalSecret))
       => /\ ret'.stage = "auth"
          /\ ret'.response = Json(401, [error |-> "Unauthorized"])
          /\ identity' = identity
          /\ session' = session
          /\ ids' = ids]_vars

\* A well-formed link request for a stored, unlinked identity came with a
\* wrong secret and a selector the resolver would have rejected: the
\* answer is 401 and the identity is still unlinked.
C18_Witness ==
    /\ ret.op = "internal"
    /\ ret.req.secret = Some("wrong-secret")
    /\ ret.req.route = "link"
    /\ LinkRequestSchema(ret.req.body)
    /\ SelectorUnusable
    /\ ret.response.status = 401
    /\ session # <<>>
    /\ \E k \in 1..Len(identity) :
           /\ identity[k].id = ret.req.identityId
           /\ identity[k].user_id = NULL

\* C19: after every callback request, however it ended, the browser holds
\* none of the five flow values: state, nonce, code verifier, redirect
\* target and tenant.
C19_FlowStorageCleared ==
    CallbackReceived => \A c \in FlowCookies : browser[c] = NULL

\* What the claim asks of the answer to a callback request.
CallbackEndsInRedirect ==
    /\ ret.response.kind = "redirect"
    /\ ret.response.error # NULL =>
           \A c \in AuthCookies : c \notin DOMAIN ret.response.cookies

\* C20: every callback request ends in a redirect, to the post-login target
\* after a complete login or to a location with an error indicator; a
\* failed callback returns no raw error, sets no access_token or
\* refresh_token, and, when it fails before identity resolution, creates
\* no identity and no session.
C20_CallbackAlwaysRedirects ==
    [][CallbackReceived' =>
          /\ CallbackEndsInRedirect'
          /\ (ret'.response.kind = "redirect"
              /\ ret'.response.error \in {Some("invalid_state"),
                                          Some("invalid_request"),
                                          Some("oauth_failed")}) =>
                 /\ identity' = identity
                 /\ session' = session]_vars

\* The last request was a callback that ended LoggedIn.
LoggedIn ==
    /\ CallbackReceived
    /\ ret.stage = "handler"
    /\ ret.response.error = NULL

\* C21: every callback that ends LoggedIn ran a code exchange that
\* presented the code verifier and asserted the state and the nonce that
\* the flow's authorization start generated; a callback whose state or
\* nonce does not match the issued value creates no identity and no
\* session.
C21_ExchangeAssertsStateAndNonce ==
    [][/\ LoggedIn' =>
              /\ browser["oauth_code_verifier"] = Some("verifier")
              /\ ret'.req.challengeOf = "verifier"
              /\ browser["oauth_state"] = Some("state")
              /\ ret'.req.state = "state"
              /\ browser["oauth_nonce"] = Some("nonce")
              /\ ret'.req.nonceClaim = Some("nonce")
       /\ (/\ CallbackReceived'
           /\ \/ ret'.req.state # "state"
              \/ ret'.req.nonceClaim # Some("nonce"))
          => /\ identity' = identity
             /\ session' = session]_vars

\* The last call was a handleOAuthLogin that succeeded.
LoginSucceeded ==
    /\ ret.op = "handleOAuthLogin"
    /\ ret.result.success

\* The identity rows of (tenantId, provider, subject).
RowsOfSubject(tbl, tenantId, provider, subject) ==
    {k \in 1..Len(tbl) :
        /\ tbl[k].tenant_id = tenantId
        /\ tbl[k].provider = provider
        /\ tbl[k].provider_user_id = subject}

\* C22: the first successful login of a (tenant, provider, subject) appends
\* exactly one identity row with that tenant, provider and subject, no
\* userId, no roles, and the provider's email claim or, without one,
\* '<subject>@<provider>.local' as email; the call reports isNew and the
\* identity with roles = [], and one new session of that identity is
\* stored; no other row changes.
C22_FirstLoginCreatesIdentity ==
    [][(/\ LoginSucceeded'
        /\ RowsOfSubject(identity, ret'.tenantId, Provider, ret'.userInfo.id) = {})
       => LET ui == ret'.userInfo
              new == identity'[Len(identity')]
              reported == ret'.result.data.identity
          IN  /\ Len(identity') = Len(identity) + 1
              /\ SubSeq(identity', 1, Len(identity)) = identity
              /\ new.tenant_id = ret'.tenantId
              /\ new.provider = Provider
              /\ new.provider_user_id = ui.id
              /\ new.user_id = NULL
              /\ new.roles = NULL
              /\ new.email = IF ui.email # NULL THEN ui.email[1]
                             ELSE ui.id \o "@google.local"
              /\ ret'.result.data.isNew
              /\ reported.id = new.id
              /\ reported.userId = NULL
              /\ reported.roles = <<>>
              /\ reported.email = new.email
              /\ Len(session') = Len(session) + 1
              /\ SubSeq(session', 1, Len(session)) = session
              /\ session'[Len(session')].identity_id = new.id
              /\ session'[Len(session')].revoked = 0]_vars

\* A first login without an email claim, beside an identity of the same
\* subject in the other tenant.
C22_Witness ==
    /\ LoginSucceeded
    /\ ret.result.data.isNew
    /\ ret.userInfo.email = NULL
    /\ ret.result.data.identity.email = "g-1@google.local"
    /\ Len(identity) = 2

\* C23: a successful login of a (tenant, provider, subject) that is already
\* stored returns the stored identity, with isNew false, and changes no
\* identity row, whatever the provider's claims are now: userId and roles
\* set by a link stay set, and email, name and profile image are not
\* overwritten.  Only a session is added.
C23_LoginReusesIdentity ==
    [][(/\ LoginSucceeded'
        /\ RowsOfSubject(identity, ret'.tenantId, Provider, ret'.userInfo.id) # {})
       => LET k == CHOOSE j \in RowsOfSubject(identity, ret'.tenantId, Provider,
                                              ret'.userInfo.id) : TRUE
          IN  /\ identity' = identity
              /\ ids'.identity = ids.identity
              /\ ~ret'.result.data.isNew
              /\ ret'.result.data.identity = mapIdentityToDomain(identity[k])
              /\ Len(session') = Len(session) + 1
              /\ SubSeq(session', 1, Len(session)) = session]_vars

\* A linked identity stored with an email and a name logged in again with
\* claims that have no email and no name but a picture: the call returned
\* the linked identity with its stored email.
C23_Witness ==
    /\ LoginSucceeded
    /\ ~ret.result.data.isNew
    /\ ret.userInfo.email = NULL
    /\ ret.userInfo.picture # NULL
    /\ ret.result.data.identity.userId = Some("alice")
    /\ ret.result.data.identity.roles # <<>>
    /\ ret.result.data.identity.email = "ann@example.com"
    /\ ret.result.data.identity.profileImageUrl = NULL

\* C24: an identity is created without a userId, and its userId is assigned
\* at most once: a step changes the userId of a stored identity only if it
\* had none and the step is a linkIdentityToUser; once set it is neither
\* replaced nor cleared, by a further linkIdentityToUser either.
C24_UserIdAssignedOnce ==
    [][/\ \A k \in (Len(identity) + 1)..Len(identity') :
              identity'[k].user_id = NULL
       /\ \A k \in 1..Len(identity) :
              identity'[k].user_id # identity[k].user_id =>
                  /\ identity[k].user_id = NULL
                  /\ ret'.op = "linkIdentityToUser"]_vars

\* The last call was a linkIdentityToUser.
LinkCalled == ret.op = "linkIdentityToUser"

\* C25: linkIdentityToUser with an id that no stored identity has returns
\* the NOT_FOUND failure and changes nothing: every identity row is as it
\* was and no session is created.
C25_LinkUnknownIdentity ==
    [][(/\ LinkCalled'
        /\ \A k \in 1..Len(identity) : identity[k].id # ret'.identityId)
       => /\ ~ret'.result.success
          /\ ret'.result.error.code = "NOT_FOUND"
          /\ identity' = identity
          /\ session' = session
          /\ ids' = ids]_vars

\* A link of an id that was never handed out failed while an unlinked
\* identity and a session were stored.
C25_Witness ==
    /\ LinkCalled
    /\ ret.result = failure("NOT_FOUND", "Identity not found")
    /\ session # <<>>
    /\ \E k \in 1..Len(identity) : identity[k].user_id = NULL

\* The last call was a linkIdentityToUser that succeeded.
LinkSucceeded == LinkCalled /\ ret.result.success

\* C26: a successful linkIdentityToUser(identityId, userId, roles) leaves
\* the identity with the given userId and the given roles and with its
\* tenant, changes no other identity, appends exactly one unrevoked session
\* of that identity and changes no earlier session, and returns an access
\* token whose claims carry the given userId, the given roles and the id of
\* the new session.
C26_LinkSetsAndIssues ==
    [][LinkSucceeded' =>
          LET k == CHOOSE j \in 1..Len(identity) :
                       identity[j].id = ret'.identityId
              linked == mapIdentityToDomain(identity'[k])
              new == session'[Len(session')]
              claims == ret'.result.data.tokens.accessToken.payload
          IN  /\ Len(identity') = Len(identity)
              /\ \A j \in 1..Len(identity) : j # k => identity'[j] = identity[j]
              /\ linked.userId = Some(ret'.userId)
              /\ linked.roles = ret'.roles
              /\ linked.tenantId = identity[k].tenant_id
              /\ Len(session') = Len(session) + 1
              /\ SubSeq(session', 1, Len(session)) = session
              /\ new.identity_id = ret'.identityId
              /\ new.revoked = 0
              /\ claims.userId = Some(ret'.userId)
              /\ claims.roles = ret'.roles
              /\ claims.sessionId = new.id]_vars

\* The last call was the expiry sweep.
SweepRan == ret.op = "deleteExpired"

\* The clock readings a second sweep can take right after the first: the
\* same reading, or a later one.
NextReadings == {now} \cup {now + d : d \in TickDeltas}

\* C27 as stated: after deleteExpired has run, a second run made with no
\* operation in between deletes no row, returns 0 and leaves the store as
\* the first run left it.  The second run reads the clock itself, so its
\* reading is the first run's or a later one.
C27_SweepTwiceDeletesOnce ==
    [][SweepRan' =>
          \A t \in NextReadings' :
              deleteExpired(session', t) = [session |-> session', changes |-> 0]]_vars

\* C27, amended: a second run that reads the same time as the first deletes
\* no row, returns 0 and leaves the store as the first run left it; a second
\* run at a later reading deletes only sessions that were not yet expired at
\* the first reading, and returns their number.
C27_SweepIdempotentAtOneReading ==
    [][SweepRan' =>
          /\ deleteExpired(session', now')
                = [session |-> session', changes |-> 0]
          /\ \A t \in NextReadings' :
                LET second == deleteExpired(session', t)
                    gone == {k \in 1..Len(session') :
                                \A j \in 1..Len(second.session) :
                                    second.session[j] # session'[k]}
                IN  /\ second.changes = Cardinality(gone)
                    /\ \A k \in gone :
                          /\ session'[k].expires_at[2] >= now'
                          /\ session'[k].expires_at[2] < t]_vars

\* A sweep that removed two sessions has just returned.
C27_Witness == SweepRan /\ ret.result = 2

\* C28: deleteExpired removes exactly the sessions whose expires_at is
\* earlier than the current time, revoked or not, and returns their number;
\* a session whose expires_at is not earlier than now stays, every remaining
\* session is as it was, no session appears, and no identity changes.
C28_SweepRemovesExactlyExpired ==
    [][SweepRan' =>
          LET expired == {k \in 1..Len(session) : session[k].expires_at[2] < now}
              kept == {k \in 1..Len(session) :
                          \E j \in 1..Len(session') : session'[j] = session[k]}
          IN  /\ kept = (1..Len(session)) \ expired
              /\ Len(session') = Cardinality(kept)
              /\ \A j \in 1..Len(session') :
                    \E k \in kept : session'[j] = session[k]
              /\ ret'.result = Cardinality(expired)
              /\ identity' = identity
              /\ now' = now]_vars

\* A sweep has removed a session and kept one that expires at this very
\* millisecond.
C28_Witness ==
    /\ SweepRan
    /\ ret.result > 0
    /\ \E j \in 1..Len(session) : session[j].expires_at[2] = now

\* The last call was revokeSession.
RevokeCalled == ret.op = "revokeSession"

\* C29: revokeSession(sessionId) answers NOT_FOUND and changes nothing when
\* no session has that id; otherwise it answers success, the session has
\* revoked set afterwards (a session that was already revoked is left as it
\* was), every other session is as before, and no identity changes.
C29_RevokeSessionOutcome ==
    [][RevokeCalled' =>
          LET hits == {k \in 1..Len(session) : session[k].id = ret'.sessionId}
          IN  /\ identity' = identity
              /\ Len(session') = Len(session)
              /\ IF hits = {}
                 THEN /\ ret'.result = failure("NOT_FOUND", "Session not found")
                      /\ session' = session
                 ELSE /\ ret'.result = success(NULL)
                      /\ \A k \in 1..Len(session) :
                            IF k \in hits
                            THEN /\ session'[k].revoked = 1
                                 /\ session'[k] = [session[k] EXCEPT !.revoked = 1]
                                 /\ session[k].revoked = 1 => session' = session
                            ELSE session'[k] = session[k]]_vars

\* A revokeSession has succeeded while another session is still unrevoked.
C29_Witness ==
    /\ RevokeCalled
    /\ ret.result.success
    /\ \E k \in 1..Len(session) :
          session[k].id # ret.sessionId /\ session[k].revoked = 0

\* The last call handed out an access token.
GrantIssued == "grant" \in DOMAIN ret /\ ret.grant # NULL

\* C30: an access token that generateAccessToken mints for an identity and
\* a session differs from every access token minted earlier for the same
\* identity and the same session (the wallet holds tokens that earlier calls
\* returned), whether or not the clock has advanced since.
C30_AccessTokensDiffer ==
    [][GrantIssued' =>
          \A g \in wallet :
              (/\ g.identity = ret'.grant[1].identity
               /\ g.sessionId = ret'.grant[1].sessionId)
                  => g.accessToken # ret'.grant[1].accessToken]_vars

\* The last request was POST /logout.
LogoutAnswered == ret.op = "postLogout"

\* The refresh token POST /logout went by: the cookie's, else the body's.
LogoutToken == PickRefreshToken(ret.cookieToken, ret.bodyToken)

\* The session of this refresh token is revoked, or is no longer stored.
SessionDead(tk) == RowRevoked(tk) \/ GoneOutcome(tk)

\* The last call presented this refresh token, to validateRefreshToken or
\* to POST /token/refresh (the cookie's before the body's).
Presented(tk) ==
    \/ ret.op = "validateRefreshToken" /\ ret.token = tk
    \/ /\ ret.op = "postTokenRefresh"
       /\ PickRefreshToken(ret.cookieToken, ret.bodyToken) = Some(tk)

\* The last call turned the presented token down.
TurnedDown ==
    \/ ret.op = "validateRefreshToken" /\ ~ret.result.success
    \/ ret.op = "postTokenRefresh" /\ ret.response.status = 401

\* C31: POST /logout answers 200 {success: true} and clears access_token
\* and refresh_token, whatever token it is given; when the token it goes by
\* (the cookie's before the body's) is valid, that token's session is
\* revoked when the answer is sent.  A session that is revoked or deleted
\* stays so, and every validateRefreshToken and POST /token/refresh that
\* presents its token is turned down.
C31_LogoutSucceedsAndRevokes ==
    [][/\ LogoutAnswered' =>
             /\ ret'.response.status = 200
             /\ ret'.response.body = [success |-> TRUE]
             /\ ret'.response.cookies["access_token"] = Cleared
             /\ ret'.response.cookies["refresh_token"] = Cleared
             /\ \A tk \in PresentedTokens :
                   (LogoutToken' = Some(tk) /\ Outcome(tk).success)
                       => RowRevoked(tk)'
       /\ \A tk \in IssuedTokens :
             SessionDead(tk) => /\ SessionDead(tk)'
                                /\ Presented(tk)' => TurnedDown']_vars

\* A logout was given two different tokens; the cookie's session is revoked
\* and has not expired, the body's session is not revoked.
C31_Witness ==
    /\ LogoutAnswered
    /\ ret.cookieToken # NULL
    /\ ret.bodyToken # NULL
    /\ ret.bodyToken # ret.cookieToken
    /\ RowRevoked(ret.cookieToken[1])
    /\ RowsOfToken(ret.cookieToken[1])[1].expires_at[2] > now
    /\ RowsOfToken(ret.bodyToken[1]) # <<>>
    /\ ~RowRevoked(ret.bodyToken[1])

\* The last call stored a role list: a linkIdentityToUser that succeeded, or
\* an updateUserRoles that matched an identity.
RolesWritten ==
    \/ LinkSucceeded
    \/ ret.op = "updateUserRoles" /\ ret.result.success /\ ret.result.data > 0

\* C32: the role list given to linkIdentityToUser or updateUserRoles is the
\* list read back afterwards, element for element and in order: by findById
\* and in the roles claim of the access token the link returns, and by
\* findByUserId after a role update.
C32_RolesRoundTrip ==
    [][RolesWritten' =>
          IF ret'.op = "linkIdentityToUser"
          THEN /\ identityFindById(identity', ret'.identityId)[1].roles
                     = ret'.roles
               /\ ret'.result.data.tokens.accessToken.payload.roles = ret'.roles
          ELSE findByUserId(identity', ret'.tenantId, ret'.userId)[1].roles
                     = ret'.roles]_vars

\* Every stored session has a stored identity with its identity_id, and
\* carries that identity's tenant.
SessionsHaveOwners ==
    \A k \in 1..Len(session) :
        \E j \in 1..Len(identity) :
            /\ identity[j].id = session[k].identity_id
            /\ identity[j].tenant_id = session[k].tenant_id

\* C33: in every reachable state every stored session refers to a stored
\* identity and has that identity's tenantId; no step removes an identity or
\* changes an identity's tenantId.
C33_SessionTenantIsIdentityTenant ==
    [][/\ SessionsHaveOwners
       /\ SessionsHaveOwners'
       /\ \A j \in 1..Len(identity) :
             /\ j <= Len(identity')
             /\ identity'[j].id = identity[j].id
             /\ identity'[j].tenant_id = identity[j].tenant_id]_vars

\* Sessions of both tenants are stored, one of them revoked.
C33_Witness ==
    \E k, m \in 1..Len(session) :
        /\ session[k].tenant_id # session[m].tenant_id
        /\ session[k].revoked = 1

\* The last request was a POST /token/refresh that returned an access token.
Refreshed == ret.op = "postTokenRefresh" /\ ret.response.status = 200

\* The stored session the last refresh went by.
RefreshedSession ==
    RowsOfToken(PickRefreshToken(ret.cookieToken, ret.bodyToken)[1])[1]

\* C34: the access token POST /token/refresh returns carries the userId and
\* the roles that the session's identity has in the store when the refresh
\* is answered, whatever they were when the session was created.
C34_RefreshReadsStoredIdentity ==
    [][Refreshed' =>
          LET claims == ret'.response.body.accessToken.payload
              s == RefreshedSession'
          IN  /\ claims.sessionId = s.id
              /\ claims.sub = s.identity_id
              /\ \E j \in 1..Len(identity') :
                    /\ identity'[j].id = s.identity_id
                    /\ claims.userId = identity'[j].user_id
                    /\ joinCsv(claims.roles)
                          = IF identity'[j].roles = NULL THEN <<>>
                            ELSE identity'[j].roles[1]]_vars

\* A refresh by the session an identity got at its first login, before it
\* was linked, returned a token with a userId and roles.
C34_Witness ==
    /\ Refreshed
    /\ ret.response.body.accessToken.payload.userId # NULL
    /\ ret.response.body.accessToken.payload.roles # <<>>
    /\ \A k \in 1..Len(session) :
          session[k].identity_id = RefreshedSession.identity_id
              => session[k].id >= RefreshedSession.id
    /\ \E k \in 1..Len(session) :
          /\ session[k].identity_id = RefreshedSession.identity_id
          /\ session[k].id > RefreshedSession.id

\* C35: POST /logout changes at most the session of the refresh token it
\* goes by (the cookie's before the body's), and of that session only the
\* revoked flag; every other session, among them the other sessions of the
\* same identity and the session of a different token sent in the body, is
\* left as it was, and so is every identity.
C35_LogoutRevokesOneSession ==
    [][LogoutAnswered' =>
          /\ identity' = identity
          /\ Len(session') = Len(session)
          /\ \A k \in 1..Len(session) :
                IF LogoutToken' = Some(session[k].token_hash[2])
                THEN session'[k] = [session[k] EXCEPT !.revoked = session'[k].revoked]
                ELSE session'[k] = session[k]]_vars

\* A logout revoked one session of an identity that has another session,
\* which is neither revoked nor expired.
C35_Witness ==
    /\ LogoutAnswered
    /\ LogoutToken # NULL
    /\ RowRevoked(LogoutToken[1])
    /\ \E k \in 1..Len(session) :
          /\ session[k].identity_id = RowsOfToken(LogoutToken[1])[1].identity_id
          /\ session[k].token_hash # hashToken(LogoutToken[1])
          /\ session[k].revoked = 0
          /\ session[k].expires_at[2] > now

\* The last request was an authorization start that sent the browser on to
\* the provider.
FlowStarted ==
    /\ ret.op = "auth"
    /\ ret.req.route = "google"
    /\ ret.stage = "handler"
    /\ ret.response.error = NULL

\* The redirect target the last request supplied, when it is a well-formed
\* absolute URL.
TargetSupplied ==
    IF ret.req.redirect # NULL /\ ret.req.redirect[1].absolute
    THEN Some(ret.req.redirect[1].href)
    ELSE NULL

\* C36: a callback that ends LoggedIn redirects to the target the most
\* recent authorization start supplied, or to the default location when
\* that start supplied none or a malformed one.  The callback knows the
\* target only from the browser's oauth_redirect entry, so: after every
\* authorization start that entry is the target the start supplied, or is
\* absent when it supplied none (a target of an earlier flow is gone); and a
\* callback that ends LoggedIn redirects to the entry it was sent, or to the
\* default location when it was sent none.
C36_RedirectOfLatestStart ==
    [][/\ FlowStarted' => browser'["oauth_redirect"] = TargetSupplied'
       /\ LoggedIn' =>
             ret'.response.location
                 = IF browser["oauth_redirect"] # NULL
                   THEN browser["oauth_redirect"][1]
                   ELSE defaultRedirectUrl]_vars

\* The tenants the configuration lists.
AllowList == {tenantConfig.tenants[k] : k \in 1..Len(tenantConfig.tenants)}

\* C37: in every reachable state the tenantId of every stored identity and
\* of every stored session is on the configured allow-list, whatever the
\* browser presents as its flow storage at the callback.
C37_StoredTenantsAllowed ==
    /\ \A j \in 1..Len(identity) : identity[j].tenant_id \in AllowList
    /\ \A k \in 1..Len(session) : session[k].tenant_id \in AllowList

\* The last request was a link request that reached linkIdentityToUser.
LinkServed == LinkAdmitted /\ ret.stage = "handler"

\* C38: in multi mode a link request resolved under tenant T leaves every
\* identity of another tenant as it was, userId and roles included, and
\* issues no session for it.
C38_LinkStaysInTenant ==
    [][(LinkServed' /\ tenantConfig.mode = "multi") =>
          \A j \in 1..Len(identity) :
              identity[j].tenant_id # ServedTenant' =>
                  /\ identity'[j] = identity[j]
                  /\ \A k \in (Len(session) + 1)..Len(session') :
                        session'[k].identity_id # identity[j].id]_vars

\* C39: the expiresIn that POST /token/refresh returns is the lifetime in
\* seconds of the access token returned with it (exp - iat), which is the
\* configured access-token expiry that generateTokens reports as expiresIn.
C39_RefreshExpiresInIsLifetime ==
    [][Refreshed' =>
          LET body == ret'.response.body
          IN  /\ body.expiresIn
                    = body.accessToken.payload.exp - body.accessToken.payload.iat
              /\ body.expiresIn = accessTokenExpirySeconds]_vars

\* The last call was parseExpiry.
ExpiryParsed == ret.op = "parseExpiry"

\* The number a text of decimal digits denotes: the n whose digits, from
\* the most significant, are the text's.
Denotes(ds, n) ==
    \A i \in 1..Len(ds) :
        DigitValue(ds[i])
            = (n \div (IF Len(ds) - i = 0 THEN 1
                       ELSE IF Len(ds) - i = 1 THEN 10
                       ELSE IF Len(ds) - i = 2 THEN 100 ELSE 1000)) % 10

====
